---- MODULE Spec2Model ----
(***************************************************************************)
(* Net-cost / bounding-box engine of the placer (net_cost_handler, kept in *)
(* src/vpr/src/place/uniform_move_generator.h from line 26 on).            *)
(*                                                                         *)
(* Floating point costs are modelled as integers: crossing counts are      *)
(* scaled by CrossScale (1.0828 -> 108280) and channel cost factors by     *)
(* FacScale.                                                               *)
(***************************************************************************)
EXTENDS Integers, Sequences, FiniteSets, TLC

(***************************************************************************)
(* Device.                                                                 *)
(***************************************************************************)
\* device_ctx.grid.width(), .height(), .get_num_layers()
W == 4
H == 3
NumLayers == 2

OPEN == -1
SMALL_NET == 4

NOT_UPDATED_YET == "N"
UPDATED_ONCE == "U"
GOT_FROM_SCRATCH == "S"

Layers == 0 .. (NumLayers - 1)

Max(a, b) == IF a > b THEN a ELSE b
Min(a, b) == IF a < b THEN a ELSE b
Abs(a) == IF a < 0 THEN -a ELSE a

\* A clip that forgets the upper bound.
ClampLowOnly(v, dim) == Max(v, 1)

\* max(min<int>(v, dim - 2), 1)
Clamp(v, dim) == Max(Min(v, dim - 2), 1)

(***************************************************************************)
(* Clustered netlist: three blocks, three nets.                            *)
(*   nA  driver a0 on b0, sinks a1 a2 on b1 and a3 a4 on b2 (4 sinks, so   *)
(*       its box is maintained incrementally)                              *)
(*   nB  driver c0 on b1, sink c1 on b2 (a small net)                      *)
(*   nG  driver g0 on b2, sinks g1 on b0 and g2 on b1, global (ignored)    *)
(* b0 is an io block (perimeter sites), b1 and b2 are logic blocks of one  *)
(* type (interior sites).  Every tile is 1x1, so every pin offset is 0.    *)
(***************************************************************************)
Blocks == {"b0", "b1", "b2"}
Nets == {"nA", "nB", "nG"}
NetOrder == <<"nA", "nB", "nG">>

net_pins(net) ==
    CASE net = "nA" -> <<"a0", "a1", "a2", "a3", "a4">>
      [] net = "nB" -> <<"c0", "c1">>
      [] net = "nG" -> <<"g0", "g1", "g2">>

net_sinks(net) == Tail(net_pins(net))

block_pins(blk) ==
    CASE blk = "b0" -> <<"a0", "g1">>
      [] blk = "b1" -> <<"a1", "a2", "c0", "g2">>
      [] blk = "b2" -> <<"a3", "a4", "c1", "g0">>

Pins == {"a0", "a1", "a2", "a3", "a4", "c0", "c1", "g0", "g1", "g2"}

pin_block(pin) ==
    CHOOSE b \in Blocks : \E i \in 1 .. Len(block_pins(b)) : block_pins(b)[i] = pin

pin_net(pin) ==
    CHOOSE n \in Nets : \E i \in 1 .. Len(net_pins(n)) : net_pins(n)[i] = pin

pin_is_driver(pin) == net_pins(pin_net(pin))[1] = pin

net_driver_block(net) == pin_block(net_pins(net)[1])

net_is_ignored(net) == net = "nG"

pin_width_offset(pin) == 0
pin_height_offset(pin) == 0

block_type(blk) == IF blk = "b0" THEN "io" ELSE "clb"

\* The sites of the device a block of each type may occupy.
Interior == {xy \in (1 .. (W - 2)) \X (1 .. (H - 2)) : TRUE}
Perimeter ==
    {xy \in (0 .. (W - 1)) \X (0 .. (H - 1)) :
        /\ (xy[1] \in {0, W - 1}) # (xy[2] \in {0, H - 1})}

\* io tiles sit on the perimeter of the bottom die, logic tiles inside every die.
Sites(type) ==
    IF type = "io"
    THEN {[x |-> xy[1], y |-> xy[2], layer |-> 0] : xy \in Perimeter}
    ELSE {[x |-> xy[1], y |-> xy[2], layer |-> l] : xy \in Interior, l \in Layers}

(***************************************************************************)
(* Bounding boxes.  t_bb is [xmin, xmax, ymin, ymax]; t_2D_bb adds         *)
(* layer_num.  A default-constructed box holds OPEN in every field.        *)
(***************************************************************************)
t_bb(x0, x1, y0, y1) == [xmin |-> x0, xmax |-> x1, ymin |-> y0, ymax |-> y1]
t_2D_bb(x0, x1, y0, y1, l) ==
    [xmin |-> x0, xmax |-> x1, ymin |-> y0, ymax |-> y1, layer_num |-> l]

DefaultBB == t_bb(OPEN, OPEN, OPEN, OPEN)
Default2DBB == t_2D_bb(OPEN, OPEN, OPEN, OPEN, OPEN)

\* Position of a pin: the location of its block plus the pin's offsets.
pin_x(pin, locs) == locs[pin_block(pin)].x + pin_width_offset(pin)
pin_y(pin, locs) == locs[pin_block(pin)].y + pin_height_offset(pin)
pin_layer(pin, locs) == locs[pin_block(pin)].layer

\* Sequencing: the value v of one statement, computed once, given to the
\* statements F that follow it.
Then(v, F(_)) == CHOOSE r \in {F(x) : x \in {v}} : TRUE

\* One axis of a from-scratch scan: a = [min, max, emin, emax], v the
\* (clamped) coordinate of the next sink.
edge_scan_step(a, v) ==
    LET e1 == IF v = a.min THEN a.emin + 1 ELSE a.emin
    IN  IF v = a.max THEN [a EXCEPT !.emin = e1, !.emax = a.emax + 1]
        ELSE IF v < a.min THEN [a EXCEPT !.min = v, !.emin = 1]
        ELSE IF v > a.max THEN [a EXCEPT !.emin = e1, !.max = v, !.emax = 1]
        ELSE [a EXCEPT !.emin = e1]

\* The sink loop of get_bb_from_scratch; a = [ax, ay, cnt].
RECURSIVE scratch_scan(_, _, _, _)
scratch_scan(sinks, i, a, locs) ==
    IF i > Len(sinks) THEN a
    ELSE LET pin == sinks[i]
             x == Clamp(pin_x(pin, locs), W)
             y == Clamp(pin_y(pin, locs), H)
             l == pin_layer(pin, locs)
         IN  Then([ax |-> edge_scan_step(a.ax, x), ay |-> edge_scan_step(a.ay, y),
                   cnt |-> [a.cnt EXCEPT ![l] = @ + 1]],
                  LAMBDA b : scratch_scan(sinks, i + 1, b, locs))

\* get_bb_from_scratch: coordinates, pins on each edge and sinks per layer of
\* a net, from the block locations alone.
get_bb_from_scratch(net_id, locs) ==
    LET drv == net_pins(net_id)[1]
        x == Clamp(pin_x(drv, locs), W)
        y == Clamp(pin_y(drv, locs), H)
        seed == [ax |-> [min |-> x, max |-> x, emin |-> 1, emax |-> 1],
                 ay |-> [min |-> y, max |-> y, emin |-> 1, emax |-> 1],
                 cnt |-> [l \in Layers |-> 0]]
    IN  Then(scratch_scan(net_sinks(net_id), 1, seed, locs),
             LAMBDA r :
                [coords |-> t_bb(r.ax.min, r.ax.max, r.ay.min, r.ay.max),
                 num_on_edges |-> t_bb(r.ax.emin, r.ax.emax, r.ay.emin, r.ay.emax),
                 num_sink_pin_layer |-> r.cnt])

\* The sink loop of get_layer_bb_from_scratch; a = [ax, ay, cnt].
RECURSIVE layer_scratch_scan(_, _, _, _)
layer_scratch_scan(sinks, i, a, locs) ==
    IF i > Len(sinks) THEN a
    ELSE LET pin == sinks[i]
             l == pin_layer(pin, locs)
             x == Clamp(pin_x(pin, locs), W)
             y == Clamp(pin_y(pin, locs), H)
         IN  Then([ax |-> [a.ax EXCEPT ![l] = edge_scan_step(@, x)],
                   ay |-> [a.ay EXCEPT ![l] = edge_scan_step(@, y)],
                   cnt |-> [a.cnt EXCEPT ![l] = @ + 1]],
                  LAMBDA b : layer_scratch_scan(sinks, i + 1, b, locs))

\* get_layer_bb_from_scratch: one box per layer, each seeded with the driver
\* and extended by the sinks on that layer.
get_layer_bb_from_scratch(net_id, locs) ==
    LET drv == net_pins(net_id)[1]
        x_src == Clamp(pin_x(drv, locs), W)
        y_src == Clamp(pin_y(drv, locs), H)
        seed ==
            [ax |-> [l \in Layers |-> [min |-> x_src, max |-> x_src, emin |-> 1, emax |-> 1]],
             ay |-> [l \in Layers |-> [min |-> y_src, max |-> y_src, emin |-> 1, emax |-> 1]],
             cnt |-> [l \in Layers |-> 0]]
    IN  Then(layer_scratch_scan(net_sinks(net_id), 1, seed, locs),
             LAMBDA r :
                [coords |-> [l \in Layers |->
                    t_2D_bb(r.ax[l].min, r.ax[l].max, r.ay[l].min, r.ay[l].max, l)],
                 num_on_edges |-> [l \in Layers |->
                    t_2D_bb(r.ax[l].emin, r.ax[l].emax, r.ay[l].emin, r.ay[l].emax, l)],
                 layer_pin_sink_count |-> r.cnt])

\* A scan step that stores a new minimum as the maximum.
span_scan_step_into_max(a, v) ==
    IF v < a.min THEN [a EXCEPT !.max = v]
    ELSE IF v > a.max THEN [a EXCEPT !.max = v]
    ELSE a

\* One axis of the fast scan of a small net: a = [min, max].
span_scan_step(a, v) ==
    IF v < a.min THEN [a EXCEPT !.min = v]
    ELSE IF v > a.max THEN [a EXCEPT !.max = v]
    ELSE a

\* The sink loop of get_non_updatable_bb; a = [ax, ay, cnt].
RECURSIVE non_updatable_scan(_, _, _, _)
non_updatable_scan(sinks, i, a, locs) ==
    IF i > Len(sinks) THEN a
    ELSE LET pin == sinks[i]
             l == pin_layer(pin, locs)
         IN  Then([ax |-> span_scan_step(a.ax, pin_x(pin, locs)),
                   ay |-> span_scan_step(a.ay, pin_y(pin, locs)),
                   cnt |-> [a.cnt EXCEPT ![l] = @ + 1]],
                  LAMBDA b : non_updatable_scan(sinks, i + 1, b, locs))

\* get_non_updatable_bb: coordinates and sinks per layer only; the
\* coordinates are clipped after the scan.
get_non_updatable_bb(net_id, locs) ==
    LET drv == net_pins(net_id)[1]
        x == pin_x(drv, locs)
        y == pin_y(drv, locs)
        seed == [ax |-> [min |-> x, max |-> x], ay |-> [min |-> y, max |-> y],
                 cnt |-> [l \in Layers |-> 0]]
    IN  Then(non_updatable_scan(net_sinks(net_id), 1, seed, locs),
             LAMBDA r :
                [coords |-> t_bb(Clamp(r.ax.min, W), Clamp(r.ax.max, W),
                                 Clamp(r.ay.min, H), Clamp(r.ay.max, H)),
                 num_sink_pin_layer |-> r.cnt])

\* The sink loop of get_non_updatable_layer_bb; a = [ax, ay, cnt].
RECURSIVE non_updatable_layer_scan(_, _, _, _)
non_updatable_layer_scan(sinks, i, a, locs) ==
    IF i > Len(sinks) THEN a
    ELSE LET pin == sinks[i]
             l == pin_layer(pin, locs)
         IN  Then([ax |-> [a.ax EXCEPT ![l] = span_scan_step(@, pin_x(pin, locs))],
                   ay |-> [a.ay EXCEPT ![l] = span_scan_step(@, pin_y(pin, locs))],
                   cnt |-> [a.cnt EXCEPT ![l] = @ + 1]],
                  LAMBDA b : non_updatable_layer_scan(sinks, i + 1, b, locs))

get_non_updatable_layer_bb(net_id, locs) ==
    LET drv == net_pins(net_id)[1]
        src_x == pin_x(drv, locs)
        src_y == pin_y(drv, locs)
        seed == [ax |-> [l \in Layers |-> [min |-> src_x, max |-> src_x]],
                 ay |-> [l \in Layers |-> [min |-> src_y, max |-> src_y]],
                 cnt |-> [l \in Layers |-> 0]]
    IN  Then(non_updatable_layer_scan(net_sinks(net_id), 1, seed, locs),
             LAMBDA r :
                [coords |-> [l \in Layers |->
                    t_2D_bb(Clamp(r.ax[l].min, W), Clamp(r.ax[l].max, W),
                            Clamp(r.ay[l].min, H), Clamp(r.ay[l].max, H), l)],
                 num_sink_layer |-> r.cnt])

(***************************************************************************)
(* Net cost.                                                               *)
(***************************************************************************)
CrossScale == 100 * 1000
FacScale == 3 * 4 * 5

\* cross_count[50], each entry times CrossScale.
cross_count ==
    <<100000, 100000, 100000, 108280, 115360, 122060, 128230, 133850, 139910,
      144930, 149740, 154550, 159370, 164180, 168990, 173040, 177090, 181140,
      185190, 189240, 192880, 196520, 200150, 203790, 207430, 210610, 213790,
      216980, 220160, 223340, 226460, 229580, 232710, 235830, 238950, 241870,
      244790, 247720, 250640, 253560, 256100, 258640, 261170, 263710, 266250,
      268870, 271480, 274100, 276710, 279330>>

\* cross_count[i] of the source, i counted from 0.
cross_count_at(i) == cross_count[i + 1]

\* wirelength_crossing_count with the table indexed by fanout instead of
\* fanout - 1.
wirelength_crossing_count_shifted(fanout) ==
    IF fanout >= 50 THEN 279330 + 2616 * (fanout - 50)
    ELSE cross_count_at(fanout)

\* 2.7933 + 0.02616 * (fanout - 50) beyond the table.
wirelength_crossing_count(fanout) ==
    IF fanout > 50 THEN 279330 + 2616 * (fanout - 50)
    ELSE cross_count_at(fanout - 1)

\* device_ctx.chan_width.x_list[0 .. H-1] and .y_list[0 .. W-1]
chan_width_x_list == [i \in 0 .. (H - 1) |-> 1 + (i % 2)]
chan_width_y_list == [i \in 0 .. (W - 1) |-> 2 - (i % 2)]

place_cost_exp == 1

RECURSIVE IntPow(_, _)
IntPow(b, e) == IF e = 0 THEN 1 ELSE b * IntPow(b, e - 1)

\* Tracks in the channels low .. high: the running sum of the first pass.
RECURSIVE track_sum(_, _, _)
track_sum(list, high, low) ==
    IF high = low THEN list[high]
    ELSE track_sum(list, high - 1, low) + list[high]

\* ((high - low + 1) / tracks) ^ exp, times FacScale; no tracks count as 1.
place_cost_fac(list, high, low, exp) ==
    LET sum == track_sum(list, high, low)
        tracks == IF sum = 0 THEN 1 ELSE sum
    IN  (FacScale * IntPow(high - low + 1, exp)) \div IntPow(tracks, exp)

\* alloc_and_load_for_fast_cost_update: the two triangular tables.
chanx_place_cost_fac ==
    [high \in 0 .. (H - 1) |->
        [low \in 0 .. high |-> place_cost_fac(chan_width_x_list, high, low, place_cost_exp)]]
chany_place_cost_fac ==
    [high \in 0 .. (W - 1) |->
        [low \in 0 .. high |-> place_cost_fac(chan_width_y_list, high, low, place_cost_exp)]]

get_net_cost(net_id, bb) ==
    LET crossing == wirelength_crossing_count(Len(net_pins(net_id)))
    IN  (bb.xmax - bb.xmin + 1) * crossing * chanx_place_cost_fac[bb.ymax][bb.ymin - 1]
        + (bb.ymax - bb.ymin + 1) * crossing * chany_place_cost_fac[bb.xmax][bb.xmin - 1]

RECURSIVE layer_cost_sum(_, _, _)
layer_cost_sum(bb, layer_pin_sink_count, layer_num) ==
    IF layer_num = NumLayers THEN 0
    ELSE IF layer_pin_sink_count[layer_num] = 0
         THEN layer_cost_sum(bb, layer_pin_sink_count, layer_num + 1)
    ELSE LET crossing == wirelength_crossing_count(layer_pin_sink_count[layer_num] + 1)
             b == bb[layer_num]
         IN  (b.xmax - b.xmin + 1) * crossing * chanx_place_cost_fac[b.ymax][b.ymin - 1]
             + (b.ymax - b.ymin + 1) * crossing * chany_place_cost_fac[b.xmax][b.xmin - 1]
             + layer_cost_sum(bb, layer_pin_sink_count, layer_num + 1)

get_net_layer_cost(net_id, bb, layer_pin_sink_count) ==
    layer_cost_sum(bb, layer_pin_sink_count, 0)

(***************************************************************************)
(* State.                                                                  *)
(***************************************************************************)
VARIABLES
    cube_bb,                 \* g_vpr_ctx.placement().cube_bb
    num_layers,              \* g_vpr_ctx.device().grid.get_num_layers()
    block_locs,              \* place_ctx.block_locs
    place_move_ctx,          \* committed boxes, edge counts and sink counts
    net_cost,
    proposed_net_cost,
    bb_updated_before,
    ts_bb_coord_new,
    ts_bb_edge_new,
    layer_ts_bb_coord_new,
    layer_ts_bb_edge_new,
    ts_layer_sink_pin_count,
    ts_nets_to_update,
    pc,                      \* "init", "idle", "evaluated", "fatal"
    blocks_affected,         \* moved_blocks of the trial in flight
    num_affected_nets,       \* value returned by the trial's evaluation
    bb_delta_c,
    costs_bb_cost,           \* costs->bb_cost, tracked by the annealer
    touch_log,               \* history: one entry per pin touch of the trial
    before_trial,            \* history: committed state when the trial began, and
                             \* the cost computations of the trial
    last_op,                 \* history: the operation that ran last
    fanout_arg,              \* argument and result of a crossing count call
    crossing_ret,
    num_try,                 \* trials begun so far
    manual_moves_global,     \* the manual move panel's process-wide record
    gui,                     \* the windows, dialogs and messages of the panel
    call                     \* arguments and result of a call of one routine

vars ==
    <<cube_bb, num_layers, block_locs, place_move_ctx, net_cost, proposed_net_cost,
      bb_updated_before, ts_bb_coord_new, ts_bb_edge_new, layer_ts_bb_coord_new,
      layer_ts_bb_edge_new, ts_layer_sink_pin_count, ts_nets_to_update, pc,
      blocks_affected, num_affected_nets, bb_delta_c, costs_bb_cost, touch_log,
      before_trial, last_op, fanout_arg, crossing_ret, num_try,
      manual_moves_global, gui, call>>

(***************************************************************************)
(* Incremental update of a cube box.                                       *)
(***************************************************************************)
\* A box that came from scratch is updated again all the same.
never_done(flag) == FALSE

\* "The net had been updated from scratch, DO NOT update again!"
done_from_scratch(flag) == flag = GOT_FROM_SCRATCH

\* An update of one axis that only ever grows the box and never asks for a
\* rescan.
update_bb_axis_grow_only(old, new, cmin, cmax, emin, emax) ==
    [scratch |-> FALSE, min |-> Min(cmin, new), max |-> Max(cmax, new),
     emin |-> emin, emax |-> emax]

\* One axis of update_bb.  The pin goes from coordinate old to new; cmin,
\* cmax, emin, emax are the current box and edge counts on this axis.
\* scratch is TRUE when the pin was alone on the edge it leaves.
update_bb_axis(old, new, cmin, cmax, emin, emax) ==
    LET keep == [scratch |-> FALSE, min |-> cmin, max |-> cmax,
                 emin |-> emin, emax |-> emax]
        redo == [keep EXCEPT !.scratch = TRUE]
    IN  IF new < old THEN
            IF old = cmax /\ emax = 1 THEN redo
            ELSE LET hi == IF old = cmax THEN emax - 1 ELSE emax
                 IN  IF new < cmin
                         THEN [keep EXCEPT !.emax = hi, !.min = new, !.emin = 1]
                     ELSE IF new = cmin
                         THEN [keep EXCEPT !.emax = hi, !.min = new, !.emin = emin + 1]
                     ELSE [keep EXCEPT !.emax = hi]
        ELSE IF new > old THEN
            IF old = cmin /\ emin = 1 THEN redo
            ELSE LET lo == IF old = cmin THEN emin - 1 ELSE emin
                 IN  IF new > cmax
                         THEN [keep EXCEPT !.emin = lo, !.max = new, !.emax = 1]
                     ELSE IF new = cmax
                         THEN [keep EXCEPT !.emin = lo, !.max = new, !.emax = emax + 1]
                     ELSE [keep EXCEPT !.emin = lo]
        ELSE keep

\* num_sink_pin_layer_new after update_bb's layer step.
update_bb_sink_count(curr, sink_new, pin_old_loc, pin_new_loc, src_pin) ==
    IF num_layers > 1 THEN
        IF ~src_pin /\ pin_old_loc.layer # pin_new_loc.layer
        THEN [curr EXCEPT ![pin_old_loc.layer] = curr[pin_old_loc.layer] - 1,
                          ![pin_new_loc.layer] = curr[pin_new_loc.layer] + 1]
        ELSE curr
    ELSE sink_new

\* update_bb.  flag is bb_updated_before[net_id] on entry; the result holds
\* the values of bb_edge_new, bb_coord_new, num_sink_pin_layer_new and the
\* flag on return.  locs are the block locations the trial proposes.
update_bb(net_id, flag, bb_edge_new, bb_coord_new, num_sink_pin_layer_new, pin_old_loc, pin_new_loc, src_pin, locs) ==
    LET new_x == Clamp(pin_new_loc.x, W)
        new_y == Clamp(pin_new_loc.y, H)
        old_x == Clamp(pin_old_loc.x, W)
        old_y == Clamp(pin_old_loc.y, H)
        first == flag = NOT_UPDATED_YET
        curr_num_sink_pin_layer ==
            IF first THEN place_move_ctx.num_sink_pin_layer[net_id]
            ELSE num_sink_pin_layer_new
        curr_bb_edge == IF first THEN place_move_ctx.bb_num_on_edges[net_id] ELSE bb_edge_new
        curr_bb_coord == IF first THEN place_move_ctx.bb_coords[net_id] ELSE bb_coord_new
        ax == update_bb_axis(old_x, new_x, curr_bb_coord.xmin, curr_bb_coord.xmax,
                             curr_bb_edge.xmin, curr_bb_edge.xmax)
        ay == update_bb_axis(old_y, new_y, curr_bb_coord.ymin, curr_bb_coord.ymax,
                             curr_bb_edge.ymin, curr_bb_edge.ymax)
        scratch == get_bb_from_scratch(net_id, locs)
    IN  IF done_from_scratch(flag) THEN
            [edge |-> bb_edge_new, coord |-> bb_coord_new,
             sink |-> num_sink_pin_layer_new, flag |-> flag]
        ELSE IF ax.scratch \/ ay.scratch THEN
            [edge |-> scratch.num_on_edges, coord |-> scratch.coords,
             sink |-> scratch.num_sink_pin_layer, flag |-> GOT_FROM_SCRATCH]
        ELSE
            [edge |-> t_bb(ax.emin, ax.emax, ay.emin, ay.emax),
             coord |-> t_bb(ax.min, ax.max, ay.min, ay.max),
             sink |-> update_bb_sink_count(curr_num_sink_pin_layer, num_sink_pin_layer_new,
                                           pin_old_loc, pin_new_loc, src_pin),
             flag |-> UPDATED_ONCE]

(***************************************************************************)
(* Incremental update of the per-layer boxes.                              *)
(***************************************************************************)
\* update_bb_pin_sink_count
update_bb_pin_sink_count(pin_old_loc, pin_new_loc, curr_layer_pin_sink_count, is_output_pin) ==
    IF ~is_output_pin
    THEN LET less == [curr_layer_pin_sink_count EXCEPT ![pin_old_loc.layer] = @ - 1]
         IN  [less EXCEPT ![pin_new_loc.layer] = @ + 1]
    ELSE curr_layer_pin_sink_count

\* update_bb_edge: a pin leaves an edge holding old_num_block_on_edge pins.
update_bb_edge(old_num_block_on_edge, old_edge_coord) ==
    IF old_num_block_on_edge = 1
    THEN [scratch |-> TRUE, num |-> old_num_block_on_edge, coord |-> old_edge_coord]
    ELSE [scratch |-> FALSE, num |-> old_num_block_on_edge - 1, coord |-> old_edge_coord]

\* One axis of update_bb_same_layer.
update_bb_same_layer_axis(old, new, cmin, cmax, emin, emax) ==
    LET keep == [scratch |-> FALSE, min |-> cmin, max |-> cmax,
                 emin |-> emin, emax |-> emax]
    IN  IF new < old THEN
            LET e == IF old = cmax THEN update_bb_edge(emax, cmax)
                     ELSE [scratch |-> FALSE, num |-> emax, coord |-> cmax]
                left == [keep EXCEPT !.emax = e.num, !.max = e.coord]
            IN  IF e.scratch THEN [keep EXCEPT !.scratch = TRUE]
                ELSE IF new < cmin THEN [left EXCEPT !.emin = 1, !.min = new]
                ELSE IF new = cmin THEN [left EXCEPT !.emin = emin + 1, !.min = cmin]
                ELSE left
        ELSE IF new > old THEN
            LET e == IF old = cmin THEN update_bb_edge(emin, cmin)
                     ELSE [scratch |-> FALSE, num |-> emin, coord |-> cmin]
                right == [keep EXCEPT !.emin = e.num, !.min = e.coord]
            IN  IF e.scratch THEN [keep EXCEPT !.scratch = TRUE]
                ELSE IF new > cmax THEN [right EXCEPT !.emax = 1, !.max = new]
                ELSE IF new = cmax THEN [right EXCEPT !.emax = emax + 1, !.max = cmax]
                ELSE right
        ELSE keep

\* One axis of update_bb_layer_changed on the layer the pin leaves.
update_bb_layer_changed_axis(old, cmin, cmax, emin, emax) ==
    LET keep == [scratch |-> FALSE, min |-> cmin, max |-> cmax,
                 emin |-> emin, emax |-> emax]
    IN  IF old = cmax THEN
            LET e == update_bb_edge(emax, cmax)
            IN  [keep EXCEPT !.scratch = e.scratch, !.emax = e.num, !.max = e.coord]
        ELSE IF old = cmin THEN
            LET e == update_bb_edge(emin, cmin)
            IN  [keep EXCEPT !.scratch = e.scratch, !.emin = e.num, !.min = e.coord]
        ELSE keep

\* One axis of add_block_to_bb on the layer the pin enters.
add_block_to_bb_axis(new, cmin, cmax, emin, emax) ==
    LET hi == IF new > cmax THEN [e |-> 1, c |-> new]
              ELSE IF new = cmax THEN [e |-> emax + 1, c |-> cmax]
              ELSE [e |-> emax, c |-> cmax]
        lo == IF new < cmin THEN [e |-> 1, c |-> new]
              ELSE IF new = cmin THEN [e |-> emin + 1, c |-> cmin]
              ELSE [e |-> emin, c |-> cmin]
    IN  [min |-> lo.c, max |-> hi.c, emin |-> lo.e, emax |-> hi.e]

\* add_block_to_bb
add_block_to_bb(new_pin_loc, bb_edge_old, bb_coord_old) ==
    LET ax == add_block_to_bb_axis(new_pin_loc.x, bb_coord_old.xmin, bb_coord_old.xmax,
                                   bb_edge_old.xmin, bb_edge_old.xmax)
        ay == add_block_to_bb_axis(new_pin_loc.y, bb_coord_old.ymin, bb_coord_old.ymax,
                                   bb_edge_old.ymin, bb_edge_old.ymax)
    IN  [edge |-> [bb_edge_old EXCEPT !.xmin = ax.emin, !.xmax = ax.emax,
                                      !.ymin = ay.emin, !.ymax = ay.emax],
         coord |-> [bb_coord_old EXCEPT !.xmin = ax.min, !.xmax = ax.max,
                                        !.ymin = ay.min, !.ymax = ay.max]]

\* update_bb_same_layer: [scratch, edge, coord], edge and coord per layer.
update_bb_same_layer(pin_old_loc, pin_new_loc, curr_bb_edge, curr_bb_coord) ==
    LET layer_num == pin_old_loc.layer
        e == curr_bb_edge[layer_num]
        c == curr_bb_coord[layer_num]
        ax == update_bb_same_layer_axis(pin_old_loc.x, pin_new_loc.x,
                                        c.xmin, c.xmax, e.xmin, e.xmax)
        ay == update_bb_same_layer_axis(pin_old_loc.y, pin_new_loc.y,
                                        c.ymin, c.ymax, e.ymin, e.ymax)
    IN  [scratch |-> ax.scratch \/ ay.scratch,
         edge |-> [curr_bb_edge EXCEPT ![layer_num] =
                      [e EXCEPT !.xmin = ax.emin, !.xmax = ax.emax,
                                !.ymin = ay.emin, !.ymax = ay.emax]],
         coord |-> [curr_bb_coord EXCEPT ![layer_num] =
                      [c EXCEPT !.xmin = ax.min, !.xmax = ax.max,
                                !.ymin = ay.min, !.ymax = ay.max]]]

\* update_bb_layer_changed: the pin leaves old_layer_num and enters
\* new_layer_num.
update_bb_layer_changed(pin_old_loc, pin_new_loc, curr_bb_edge, curr_bb_coord) ==
    LET old_layer_num == pin_old_loc.layer
        new_layer_num == pin_new_loc.layer
        e == curr_bb_edge[old_layer_num]
        c == curr_bb_coord[old_layer_num]
        ax == update_bb_layer_changed_axis(pin_old_loc.x, c.xmin, c.xmax, e.xmin, e.xmax)
        ay == update_bb_layer_changed_axis(pin_old_loc.y, c.ymin, c.ymax, e.ymin, e.ymax)
        added == add_block_to_bb(pin_new_loc, curr_bb_edge[new_layer_num],
                                 curr_bb_coord[new_layer_num])
    IN  [scratch |-> ax.scratch \/ ay.scratch,
         edge |-> [curr_bb_edge EXCEPT
                      ![old_layer_num] = [e EXCEPT !.xmin = ax.emin, !.xmax = ax.emax,
                                                   !.ymin = ay.emin, !.ymax = ay.emax],
                      ![new_layer_num] = added.edge],
         coord |-> [curr_bb_coord EXCEPT
                      ![old_layer_num] = [c EXCEPT !.xmin = ax.min, !.xmax = ax.max,
                                                   !.ymin = ay.min, !.ymax = ay.max],
                      ![new_layer_num] = added.coord]]

\* update_layer_bb, with the flag and the result as for update_bb.
update_layer_bb(net_id, flag, bb_edge_new, bb_coord_new, bb_pin_sink_count_new, pin_old_loc, pin_new_loc, is_output_pin, locs) ==
    LET old_loc == [pin_old_loc EXCEPT !.x = Clamp(pin_old_loc.x, W),
                                       !.y = Clamp(pin_old_loc.y, H)]
        new_loc == [pin_new_loc EXCEPT !.x = Clamp(pin_new_loc.x, W),
                                       !.y = Clamp(pin_new_loc.y, H)]
        first == flag = NOT_UPDATED_YET
        curr_layer_pin_sink_count ==
            IF first THEN place_move_ctx.num_sink_pin_layer[net_id]
            ELSE bb_pin_sink_count_new
        curr_bb_edge ==
            IF first THEN place_move_ctx.layer_bb_num_on_edges[net_id] ELSE bb_edge_new
        curr_bb_coord ==
            IF first THEN place_move_ctx.layer_bb_coords[net_id] ELSE bb_coord_new
        r == IF old_loc.layer # new_loc.layer
             THEN update_bb_layer_changed(old_loc, new_loc, curr_bb_edge, curr_bb_coord)
             ELSE update_bb_same_layer(old_loc, new_loc, curr_bb_edge, curr_bb_coord)
        scratch == get_layer_bb_from_scratch(net_id, locs)
    IN  IF done_from_scratch(flag) THEN
            [edge |-> bb_edge_new, coord |-> bb_coord_new,
             sink |-> bb_pin_sink_count_new, flag |-> flag]
        ELSE IF r.scratch THEN
            [edge |-> scratch.num_on_edges, coord |-> scratch.coords,
             sink |-> scratch.layer_pin_sink_count, flag |-> GOT_FROM_SCRATCH]
        ELSE
            [edge |-> r.edge, coord |-> r.coord,
             sink |-> update_bb_pin_sink_count(old_loc, new_loc,
                                               curr_layer_pin_sink_count, is_output_pin),
             flag |-> UPDATED_ONCE]

(***************************************************************************)
(* One trial: the nets touched by the moved blocks.                        *)
(*                                                                         *)
(* The scratch state of a trial is threaded through the pin touches as a   *)
(* record t: flag (bb_updated_before), coord / edge (ts_bb_coord_new,      *)
(* ts_bb_edge_new), lcoord / ledge (layer_ts_bb_coord_new,                 *)
(* layer_ts_bb_edge_new), sink (ts_layer_sink_pin_count), proposed         *)
(* (proposed_net_cost), nets (ts_nets_to_update), num (num_affected_nets)  *)
(* and log (the history of touches).                                       *)
(***************************************************************************)
NumNets == Cardinality(Nets)
INVALID == "INVALID"

\* A recording that appends the net at every touch, while the list has room.
record_affected_net_at_every_touch(net, t) ==
    IF t.num < NumNets
    THEN [t EXCEPT !.nets[t.num] = net, !.num = t.num + 1, !.proposed[net] = 1]
    ELSE t

\* record_affected_net
record_affected_net(net, t) ==
    IF t.proposed[net] < 0
    THEN [t EXCEPT !.nets[t.num] = net, !.num = t.num + 1, !.proposed[net] = 1]
    ELSE t

\* The location of a moved block's pin before and after the move.
moved_pin_loc(loc, blk_pin) ==
    [x |-> loc.x + pin_width_offset(blk_pin),
     y |-> loc.y + pin_height_offset(blk_pin),
     layer |-> loc.layer]

\* update_net_bb
update_net_bb(net, blk_pin, pl_moved_block, t, locs) ==
    IF Len(net_sinks(net)) < SMALL_NET THEN
        IF t.flag[net] = NOT_UPDATED_YET
        THEN Then(get_non_updatable_bb(net, locs),
                  LAMBDA r : [t EXCEPT !.coord[net] = r.coords,
                                       !.sink[net] = r.num_sink_pin_layer])
        ELSE t
    ELSE
        Then(update_bb(net, t.flag[net], t.edge[net], t.coord[net], t.sink[net],
                       moved_pin_loc(pl_moved_block.old_loc, blk_pin),
                       moved_pin_loc(pl_moved_block.new_loc, blk_pin),
                       pin_is_driver(blk_pin), locs),
             LAMBDA r : [t EXCEPT !.edge[net] = r.edge, !.coord[net] = r.coord,
                                  !.sink[net] = r.sink, !.flag[net] = r.flag])

\* update_net_layer_bb
update_net_layer_bb(net, blk_pin, pl_moved_block, t, locs) ==
    IF Len(net_sinks(net)) < SMALL_NET THEN
        IF t.flag[net] = NOT_UPDATED_YET
        THEN Then(get_non_updatable_layer_bb(net, locs),
                  LAMBDA r : [t EXCEPT !.lcoord[net] = r.coords,
                                       !.sink[net] = r.num_sink_layer])
        ELSE t
    ELSE
        Then(update_layer_bb(net, t.flag[net], t.ledge[net], t.lcoord[net], t.sink[net],
                             moved_pin_loc(pl_moved_block.old_loc, blk_pin),
                             moved_pin_loc(pl_moved_block.new_loc, blk_pin),
                             pin_is_driver(blk_pin), locs),
             LAMBDA r : [t EXCEPT !.ledge[net] = r.edge, !.lcoord[net] = r.coord,
                                  !.sink[net] = r.sink, !.flag[net] = r.flag])

\* What a touch can change for one net.
net_scratch(t, net) ==
    [flag |-> t.flag[net], coord |-> t.coord[net], edge |-> t.edge[net],
     lcoord |-> t.lcoord[net], ledge |-> t.ledge[net], sink |-> t.sink[net]]

(***************************************************************************)
(* Timing-driven placement: the delay and the timing cost of a connection  *)
(* (a net and the index ipin >= 1 of one of its sinks).  The trial record  *)
(* carries timing_driven, the committed connection_delay and               *)
(* connection_timing_cost, and the trial's proposed_connection_delay,      *)
(* proposed_connection_timing_cost, timing_delta_c and affected_pins.      *)
(***************************************************************************)
Connections == UNION {{<<n, ipin>> : ipin \in 1 .. (Len(net_pins(n)) - 1)} : n \in Nets}

\* Before a trial no connection has a proposed delay or timing cost.
no_proposed_connection == [c \in Connections |-> -1]

\* clb_nlist.net_pin(net, ipin) and clb_nlist.pin_net_index(pin)
net_pin(net, ipin) == net_pins(net)[ipin + 1]
pin_net_index(pin) ==
    (CHOOSE i \in 1 .. Len(net_pins(pin_net(pin))) : net_pins(pin_net(pin))[i] = pin) - 1

\* The delay model: a delay that depends on where the driver and the sink
\* are and on the direction of the connection, and that does not grow with
\* the distance within a die.
comp_td_single_connection_delay(net, ipin, locs) ==
    LET from == locs[net_driver_block(net)]
        to == locs[pin_block(net_pin(net, ipin))]
    IN  2 * Min(Abs(to.x - from.x) + Abs(to.y - from.y), 1)
        + Abs(to.layer - from.layer) + (IF to.x < from.x THEN 1 ELSE 0)

\* criticalities.criticality(net, ipin): kept as it is during a trial.
criticality(net, ipin) == ipin % 3

\* The committed delays and timing costs of the placement locs.
connection_delay_of(locs) ==
    [c \in Connections |-> comp_td_single_connection_delay(c[1], c[2], locs)]
connection_timing_cost_of(locs) ==
    [c \in Connections |->
        criticality(c[1], c[2]) * comp_td_single_connection_delay(c[1], c[2], locs)]

\* driven_by_moved_block
driven_by_moved_block(net, moved_blocks) ==
    \E block_num \in 1 .. Len(moved_blocks) :
        net_driver_block(net) = moved_blocks[block_num].block_num

\* update_td_delta_costs, one connection: nothing when the delay is the
\* committed one.
update_td_connection(net, ipin, t, locs) ==
    LET temp_delay == comp_td_single_connection_delay(net, ipin, locs)
        cost == criticality(net, ipin) * temp_delay
    IN  IF temp_delay = t.connection_delay[<<net, ipin>>] THEN t
        ELSE [t EXCEPT !.proposed_connection_delay[<<net, ipin>>] = temp_delay,
                       !.proposed_connection_timing_cost[<<net, ipin>>] = cost,
                       !.timing_delta_c =
                           t.timing_delta_c + cost - t.connection_timing_cost[<<net, ipin>>],
                       !.affected_pins = Append(t.affected_pins, net_pin(net, ipin))]

RECURSIVE update_td_sinks(_, _, _, _)
update_td_sinks(net, ipin, t, locs) ==
    IF ipin >= Len(net_pins(net)) THEN t
    ELSE Then(update_td_connection(net, ipin, t, locs),
              LAMBDA t1 : update_td_sinks(net, ipin + 1, t1, locs))

\* A timing update that also recomputes a moved sink whose driver moves.
update_td_delta_costs_with_moving_source(net, pin, t, locs, is_src_moving) ==
    IF pin_is_driver(pin) THEN update_td_sinks(net, 1, t, locs)
    ELSE update_td_connection(net, pin_net_index(pin), t, locs)

\* update_td_delta_costs
update_td_delta_costs(net, pin, t, locs, is_src_moving) ==
    IF pin_is_driver(pin) THEN update_td_sinks(net, 1, t, locs)
    ELSE IF ~is_src_moving THEN update_td_connection(net, pin_net_index(pin), t, locs)
    ELSE t

\* A pin move that treats an ignored net as any other net.
update_net_info_on_pin_move_for_every_net(pin_id, moving_blk_inf, t, locs, cube, is_src_moving) ==
    LET net_id == pin_net(pin_id)
        logged(t2) == [t2 EXCEPT !.log = Append(t.log,
                          [net |-> net_id, pin |-> pin_id,
                           before |-> net_scratch(t, net_id),
                           after |-> net_scratch(t2, net_id)])]
    IN  Then(record_affected_net(net_id, t),
             LAMBDA t1 :
                Then(Then(IF cube
                          THEN update_net_bb(net_id, pin_id, moving_blk_inf, t1, locs)
                          ELSE update_net_layer_bb(net_id, pin_id, moving_blk_inf,
                                                   t1, locs),
                          logged),
                     LAMBDA t3 :
                        IF t3.timing_driven
                        THEN update_td_delta_costs(net_id, pin_id, t3, locs, is_src_moving)
                        ELSE t3))

\* update_net_info_on_pin_move.  Every touch of a net that is not ignored is
\* logged.
update_net_info_on_pin_move(pin_id, moving_blk_inf, t, locs, cube, is_src_moving) ==
    LET net_id == pin_net(pin_id)
        logged(t2) == [t2 EXCEPT !.log = Append(t.log,
                          [net |-> net_id, pin |-> pin_id,
                           before |-> net_scratch(t, net_id),
                           after |-> net_scratch(t2, net_id)])]
    IN  IF net_is_ignored(net_id) THEN t
        ELSE Then(record_affected_net(net_id, t),
                  LAMBDA t1 :
                     Then(Then(IF cube
                               THEN update_net_bb(net_id, pin_id, moving_blk_inf, t1, locs)
                               ELSE update_net_layer_bb(net_id, pin_id, moving_blk_inf,
                                                        t1, locs),
                               logged),
                          LAMBDA t3 :
                             IF t3.timing_driven
                             THEN update_td_delta_costs(net_id, pin_id, t3, locs,
                                                        is_src_moving)
                             ELSE t3))

RECURSIVE touch_block_pins(_, _, _, _, _, _, _)
touch_block_pins(pins, i, moving_block_inf, t, locs, cube, moved_blocks) ==
    IF i > Len(pins) THEN t
    ELSE LET is_src_moving ==
                 /\ ~pin_is_driver(pins[i])
                 /\ driven_by_moved_block(pin_net(pins[i]), moved_blocks)
         IN  Then(update_net_info_on_pin_move(pins[i], moving_block_inf, t, locs, cube,
                                              is_src_moving),
                  LAMBDA t1 : touch_block_pins(pins, i + 1, moving_block_inf, t1, locs,
                                               cube, moved_blocks))

RECURSIVE touch_moved_blocks(_, _, _, _, _)
touch_moved_blocks(moved_blocks, iblk, t, locs, cube) ==
    IF iblk > Len(moved_blocks) THEN t
    ELSE Then(touch_block_pins(block_pins(moved_blocks[iblk].block_num), 1,
                               moved_blocks[iblk], t, locs, cube, moved_blocks),
              LAMBDA t1 : touch_moved_blocks(moved_blocks, iblk + 1, t1, locs, cube))

\* The proposed cost of each affected net, once per net, and the sum of the
\* differences to the committed costs.  Every cost computation is logged in
\* t.costed with the number of pin touches made before it.
RECURSIVE propose_costs(_, _, _, _)
propose_costs(t, inet_affected, delta, cube) ==
    IF inet_affected >= t.num THEN [t |-> t, bb_delta_c |-> delta]
    ELSE LET net_id == t.nets[inet_affected]
         IN  Then(IF cube THEN get_net_cost(net_id, t.coord[net_id])
                  ELSE get_net_layer_cost(net_id, t.lcoord[net_id], t.sink[net_id]),
                  LAMBDA c :
                     Then([t |-> [t EXCEPT !.proposed[net_id] = c,
                                           !.costed = Append(t.costed,
                                              [net |-> net_id, touches |-> Len(t.log)])],
                           d |-> delta + c - net_cost[net_id]],
                          LAMBDA n : propose_costs(n.t, inet_affected + 1, n.d, cube)))

\* An evaluation that computes the costs once the pins of the first moved
\* block are done, and touches the pins of the other blocks afterwards.
find_affected_nets_and_update_costs_after_first_block(moved_blocks, t, locs, cube) ==
    Then(touch_moved_blocks(SubSeq(moved_blocks, 1, 1), 1, t, locs, cube),
         LAMBDA t1 :
            Then(propose_costs(t1, 0, 0, cube),
                 LAMBDA r : [t |-> touch_moved_blocks(moved_blocks, 2, r.t, locs, cube),
                             bb_delta_c |-> r.bb_delta_c]))

\* find_affected_nets_and_update_costs (cluster level): [t, bb_delta_c];
\* t.num is the value returned.
find_affected_nets_and_update_costs(moved_blocks, t, locs, cube) ==
    Then(touch_moved_blocks(moved_blocks, 1, t, locs, cube),
         LAMBDA t1 : propose_costs(t1, 0, 0, cube))

(***************************************************************************)
(* Commit, rollback, full recomputation.                                   *)
(***************************************************************************)
\* The state update_move_nets and reset_move_nets work on.
move_nets_state ==
    [ctx |-> place_move_ctx, net_cost |-> net_cost,
     proposed_net_cost |-> proposed_net_cost, bb_updated_before |-> bb_updated_before]

\* A commit that keeps the old cost of the net.
commit_net_cost_stale(m, net_id) == m.net_cost[net_id]

\* net_cost[net_id] = proposed_net_cost[net_id]
commit_net_cost(m, net_id) == m.proposed_net_cost[net_id]

\* One net of update_move_nets.
update_move_net(m, net_id, cube) ==
    LET c1 == IF cube
              THEN [m.ctx EXCEPT !.bb_coords[net_id] = ts_bb_coord_new[net_id]]
              ELSE [m.ctx EXCEPT !.layer_bb_coords[net_id] = layer_ts_bb_coord_new[net_id]]
        c2 == [c1 EXCEPT !.num_sink_pin_layer[net_id] = ts_layer_sink_pin_count[net_id]]
        c3 == IF Len(net_sinks(net_id)) >= SMALL_NET
              THEN IF cube
                   THEN [c2 EXCEPT !.bb_num_on_edges[net_id] = ts_bb_edge_new[net_id]]
                   ELSE [c2 EXCEPT !.layer_bb_num_on_edges[net_id] =
                                       layer_ts_bb_edge_new[net_id]]
              ELSE c2
    IN  [ctx |-> c3,
         net_cost |-> [m.net_cost EXCEPT ![net_id] = commit_net_cost(m, net_id)],
         proposed_net_cost |-> [m.proposed_net_cost EXCEPT ![net_id] = -1],
         bb_updated_before |-> [m.bb_updated_before EXCEPT ![net_id] = NOT_UPDATED_YET]]

RECURSIVE update_move_nets_from(_, _, _, _)
update_move_nets_from(m, inet_affected, num_nets_affected, cube) ==
    IF inet_affected >= num_nets_affected THEN m
    ELSE Then(update_move_net(m, ts_nets_to_update[inet_affected], cube),
              LAMBDA m1 : update_move_nets_from(m1, inet_affected + 1,
                                                num_nets_affected, cube))

\* update_move_nets
update_move_nets(num_nets_affected, cube) ==
    Then(move_nets_state,
         LAMBDA m : update_move_nets_from(m, 0, num_nets_affected, cube))

\* A rollback that takes the trial's boxes and cost as a commit does.
reset_move_net_committing(m, net_id) == update_move_net(m, net_id, cube_bb)

\* A rollback that resets the sentinel and leaves the flag.
reset_move_net_sentinel_only(m, net_id) == [m EXCEPT !.proposed_net_cost[net_id] = -1]

\* One net of reset_move_nets.
reset_move_net(m, net_id) ==
    [m EXCEPT !.proposed_net_cost[net_id] = -1,
              !.bb_updated_before[net_id] = NOT_UPDATED_YET]

RECURSIVE reset_move_nets_from(_, _, _)
reset_move_nets_from(m, inet_affected, num_nets_affected) ==
    IF inet_affected >= num_nets_affected THEN m
    ELSE Then(reset_move_net(m, ts_nets_to_update[inet_affected]),
              LAMBDA m1 : reset_move_nets_from(m1, inet_affected + 1, num_nets_affected))

\* reset_move_nets
reset_move_nets(num_nets_affected) ==
    Then(move_nets_state, LAMBDA m : reset_move_nets_from(m, 0, num_nets_affected))

\* One net of comp_bb_cost(NORMAL).
comp_bb_cost_net(m, net_id, locs) ==
    LET big == Len(net_sinks(net_id)) >= SMALL_NET
        s == get_bb_from_scratch(net_id, locs)
        n == get_non_updatable_bb(net_id, locs)
        c == IF big
             THEN [m.ctx EXCEPT !.bb_coords[net_id] = s.coords,
                                !.bb_num_on_edges[net_id] = s.num_on_edges,
                                !.num_sink_pin_layer[net_id] = s.num_sink_pin_layer]
             ELSE [m.ctx EXCEPT !.bb_coords[net_id] = n.coords,
                                !.num_sink_pin_layer[net_id] = n.num_sink_pin_layer]
    IN  [m EXCEPT !.ctx = c,
                  !.net_cost[net_id] = get_net_cost(net_id, c.bb_coords[net_id])]

\* One net of comp_layer_bb_cost(NORMAL).
comp_layer_bb_cost_net(m, net_id, locs) ==
    LET big == Len(net_sinks(net_id)) >= SMALL_NET
        s == get_layer_bb_from_scratch(net_id, locs)
        n == get_non_updatable_layer_bb(net_id, locs)
        c == IF big
             THEN [m.ctx EXCEPT !.layer_bb_coords[net_id] = s.coords,
                                !.layer_bb_num_on_edges[net_id] = s.num_on_edges,
                                !.num_sink_pin_layer[net_id] = s.layer_pin_sink_count]
             ELSE [m.ctx EXCEPT !.layer_bb_coords[net_id] = n.coords,
                                !.num_sink_pin_layer[net_id] = n.num_sink_layer]
    IN  [m EXCEPT !.ctx = c,
                  !.net_cost[net_id] =
                      get_net_layer_cost(net_id, c.layer_bb_coords[net_id],
                                         c.num_sink_pin_layer[net_id])]

\* comp_bb_cost / comp_layer_bb_cost with method NORMAL: [m, cost].
RECURSIVE comp_cost_from(_, _, _, _, _)
comp_cost_from(m, i, cost, locs, cube) ==
    IF i > Len(NetOrder) THEN [m |-> m, cost |-> cost]
    ELSE LET net_id == NetOrder[i]
         IN  IF net_is_ignored(net_id) THEN comp_cost_from(m, i + 1, cost, locs, cube)
             ELSE Then(IF cube THEN comp_bb_cost_net(m, net_id, locs)
                       ELSE comp_layer_bb_cost_net(m, net_id, locs),
                       LAMBDA m1 : comp_cost_from(m1, i + 1, cost + m1.net_cost[net_id],
                                                  locs, cube))

comp_bb_cost ==
    Then(move_nets_state, LAMBDA m : comp_cost_from(m, 1, 0, block_locs, TRUE))
comp_layer_bb_cost ==
    Then(move_nets_state, LAMBDA m : comp_cost_from(m, 1, 0, block_locs, FALSE))

\* recompute_bb_cost: the sum of the committed net costs.
RECURSIVE recompute_bb_cost_from(_)
recompute_bb_cost_from(i) ==
    IF i > Len(NetOrder) THEN 0
    ELSE (IF net_is_ignored(NetOrder[i]) THEN 0 ELSE net_cost[NetOrder[i]])
         + recompute_bb_cost_from(i + 1)

recompute_bb_cost == recompute_bb_cost_from(1)

\* ERROR_TOL is 1 / ErrorTolInverse.
ErrorTolInverse == 100

\* The comparison of the tolerance test turned around.
exceeds_error_tol_reversed(new_bb_cost, bb_cost) ==
    Abs(new_bb_cost - bb_cost) < bb_cost \div ErrorTolInverse

\* fabs(new_bb_cost - bb_cost) > bb_cost * ERROR_TOL.  For whole numbers d
\* and c >= 0, d > c / 100 exactly when d > c \div 100.
exceeds_error_tol(new_bb_cost, bb_cost) ==
    Abs(new_bb_cost - bb_cost) > bb_cost \div ErrorTolInverse

(***************************************************************************)
(* The placer's trial loop.                                                *)
(***************************************************************************)
\* The number of trials a run of the annealer makes.
MaxTrials == 2

\* Legal placements: each block on a site of its type, no site used twice.
Placements ==
    {p \in [Blocks -> Sites("io") \cup Sites("clb")] :
        /\ \A b \in Blocks : p[b] \in Sites(block_type(b))
        /\ \A b1, b2 \in Blocks : b1 # b2 => p[b1] # p[b2]}

DefaultCtx ==
    [bb_coords |-> [n \in Nets |-> DefaultBB],
     bb_num_on_edges |-> [n \in Nets |-> DefaultBB],
     layer_bb_coords |-> [n \in Nets |-> [l \in Layers |-> Default2DBB]],
     layer_bb_num_on_edges |-> [n \in Nets |-> [l \in Layers |-> Default2DBB]],
     num_sink_pin_layer |-> [n \in Nets |-> [l \in Layers |-> OPEN]]]

NoHistory ==
    [ctx |-> DefaultCtx, net_cost |-> [n \in Nets |-> -1], bb_cost |-> 0, costed |-> <<>>]

(***************************************************************************)
(* The manual move panel: manual_moves_global (ManualMovesGlobals), and    *)
(* around it the toolkit: the panel's windows, the dialogs shown, the      *)
(* status message, the proceed signal and what the last handler returned.  *)
(***************************************************************************)
\* e_move_result
ACCEPTED == "ACCEPTED"
REJECTED == "REJECTED"
ABORTED == "ABORTED"

\* t_pl_loc(x, y, sub_tile)
t_pl_loc(x, y, sub_tile) == [x |-> x, y |-> y, sub_tile |-> sub_tile]

\* ManualMovesInfo before any submission: no block id, no destination.
DefaultManualMovesInfo ==
    [blockID |-> -1, x_pos |-> -1, y_pos |-> -1, subtile |-> -1,
     to_location |-> t_pl_loc(-1, -1, -1), valid_input |-> FALSE,
     delta_cost |-> 0, delta_timing |-> 0, delta_bounding_box |-> 0,
     placer_move_outcome |-> ABORTED, user_move_outcome |-> ABORTED]

\* ManualMovesGlobals at process start.
DefaultManualMovesGlobals ==
    [mm_window_is_open |-> FALSE, user_highlighted_block |-> FALSE,
     manual_move_info |-> DefaultManualMovesInfo]

\* No window, nothing shown, nothing returned.  windows counts the manual
\* move windows that exist, block_entry is the text of the newest window's
\* block field when it was built, dialogs the texts shown by the last
\* handler, proceed whether it pressed the proceed button, message the
\* status message it set, highlighted the block it highlighted, ret what
\* propose_move returned (for the cost dialog: the response it was given),
\* crashed whether the process died in it.
NoGui ==
    [windows |-> 0, block_entry |-> <<>>, dialogs |-> <<>>, proceed |-> FALSE,
     message |-> <<>>, highlighted |-> -1, ret |-> "none", last |-> "none",
     crashed |-> FALSE]

\* No routine called.
NoCall == [fn |-> "none"]

\* init_net_cost_structs and init_try_swap_net_cost_structs: the sentinels,
\* the flags and the scratch of a trial.
InitTrialStructs ==
    /\ proposed_net_cost = [n \in Nets |-> -1]
    /\ bb_updated_before = [n \in Nets |-> NOT_UPDATED_YET]
    /\ ts_bb_coord_new = [n \in Nets |-> DefaultBB]
    /\ ts_bb_edge_new = [n \in Nets |-> DefaultBB]
    /\ layer_ts_bb_coord_new = [n \in Nets |-> [l \in Layers |-> Default2DBB]]
    /\ layer_ts_bb_edge_new = [n \in Nets |-> [l \in Layers |-> Default2DBB]]
    /\ ts_layer_sink_pin_count = [n \in Nets |-> [l \in Layers |-> OPEN]]
    /\ ts_nets_to_update = [i \in 0 .. (NumNets - 1) |-> INVALID]
    /\ blocks_affected = <<>>
    /\ num_affected_nets = 0
    /\ bb_delta_c = 0
    /\ touch_log = <<>>
    /\ before_trial = NoHistory
    /\ num_try = 0

\* The panel was never opened and no other routine was called.
InitPanel ==
    /\ manual_moves_global = DefaultManualMovesGlobals
    /\ gui = NoGui

InitNoCall == call = NoCall

\* Nothing committed yet.
InitStructs ==
    /\ InitTrialStructs
    /\ place_move_ctx = DefaultCtx
    /\ net_cost = [n \in Nets |-> -1]
    /\ costs_bb_cost = 0
    /\ last_op = "none"

Init ==
    /\ cube_bb \in BOOLEAN
    /\ num_layers = NumLayers
    /\ block_locs \in Placements
    /\ InitStructs
    /\ pc = "init"
    /\ fanout_arg = 0
    /\ crossing_ret = 0
    /\ InitPanel
    /\ InitNoCall

ts_unchanged ==
    UNCHANGED <<ts_bb_coord_new, ts_bb_edge_new, layer_ts_bb_coord_new,
                layer_ts_bb_edge_new, ts_layer_sink_pin_count, ts_nets_to_update>>

call_unchanged == UNCHANGED <<fanout_arg, crossing_ret, num_try>>

panel_unchanged == UNCHANGED <<manual_moves_global, gui, call>>

\* The initial cost of the placement, cube mode.
CompBbCost ==
    /\ pc = "init"
    /\ cube_bb
    /\ \E r \in {comp_bb_cost} :
           /\ place_move_ctx' = r.m.ctx
           /\ net_cost' = r.m.net_cost
           /\ costs_bb_cost' = r.cost
    /\ pc' = "idle"
    /\ last_op' = "comp"
    /\ ts_unchanged
    /\ call_unchanged
    /\ panel_unchanged
    /\ UNCHANGED <<cube_bb, num_layers, block_locs, proposed_net_cost, bb_updated_before,
                   blocks_affected, num_affected_nets, bb_delta_c, touch_log,
                   before_trial>>

\* The initial cost of the placement, per-layer mode.
CompLayerBbCost ==
    /\ pc = "init"
    /\ ~cube_bb
    /\ \E r \in {comp_layer_bb_cost} :
           /\ place_move_ctx' = r.m.ctx
           /\ net_cost' = r.m.net_cost
           /\ costs_bb_cost' = r.cost
    /\ pc' = "idle"
    /\ last_op' = "comp"
    /\ ts_unchanged
    /\ call_unchanged
    /\ panel_unchanged
    /\ UNCHANGED <<cube_bb, num_layers, block_locs, proposed_net_cost, bb_updated_before,
                   blocks_affected, num_affected_nets, bb_delta_c, touch_log,
                   before_trial>>

\* The blocks a move of blk to the site `to` relocates: blk alone, or blk
\* and the block it swaps with.
moved_blocks_of(blk, to) ==
    LET from == block_locs[blk]
        there == {b \in Blocks : block_locs[b] = to}
    IN  <<[block_num |-> blk, old_loc |-> from, new_loc |-> to]>>
        \o (IF there = {} THEN <<>>
            ELSE <<[block_num |-> CHOOSE b \in there : TRUE,
                    old_loc |-> to, new_loc |-> from]>>)

\* apply_move_blocks
apply_move_blocks(moved, locs) ==
    [b \in Blocks |->
        IF \E i \in 1 .. Len(moved) : moved[i].block_num = b
        THEN moved[CHOOSE i \in 1 .. Len(moved) : moved[i].block_num = b].new_loc
        ELSE locs[b]]

\* revert_move_blocks
revert_move_blocks(moved, locs) ==
    [b \in Blocks |->
        IF \E i \in 1 .. Len(moved) : moved[i].block_num = b
        THEN moved[CHOOSE i \in 1 .. Len(moved) : moved[i].block_num = b].old_loc
        ELSE locs[b]]

trial_scratch ==
    [flag |-> bb_updated_before, coord |-> ts_bb_coord_new, edge |-> ts_bb_edge_new,
     lcoord |-> layer_ts_bb_coord_new, ledge |-> layer_ts_bb_edge_new,
     sink |-> ts_layer_sink_pin_count, proposed |-> proposed_net_cost,
     nets |-> ts_nets_to_update, num |-> 0, log |-> <<>>, costed |-> <<>>,
     timing_driven |-> FALSE,
     connection_delay |-> connection_delay_of(block_locs),
     connection_timing_cost |-> connection_timing_cost_of(block_locs),
     proposed_connection_delay |-> no_proposed_connection,
     proposed_connection_timing_cost |-> no_proposed_connection,
     timing_delta_c |-> 0, affected_pins |-> <<>>]

\* place_algorithm.is_timing_driven()
trial_scratch_timing_driven == [trial_scratch EXCEPT !.timing_driven = TRUE]

\* A trial: the move generator proposes moving blk to `to`, the blocks are
\* moved and find_affected_nets_and_update_costs evaluates the move.
TryMove(blk, to) ==
    /\ pc = "idle"
    /\ num_try < MaxTrials
    /\ to \in Sites(block_type(blk))
    /\ to.layer < num_layers
    /\ to # block_locs[blk]
    /\ \E moved \in {moved_blocks_of(blk, to)} :
       \E locs \in {apply_move_blocks(moved, block_locs)} :
       \E t \in {trial_scratch} :
       \E r \in {find_affected_nets_and_update_costs(moved, t, locs, cube_bb)} :
           /\ blocks_affected' = moved
           /\ block_locs' = locs
           /\ bb_updated_before' = r.t.flag
           /\ ts_bb_coord_new' = r.t.coord
           /\ ts_bb_edge_new' = r.t.edge
           /\ layer_ts_bb_coord_new' = r.t.lcoord
           /\ layer_ts_bb_edge_new' = r.t.ledge
           /\ ts_layer_sink_pin_count' = r.t.sink
           /\ proposed_net_cost' = r.t.proposed
           /\ ts_nets_to_update' = r.t.nets
           /\ num_affected_nets' = r.t.num
           /\ touch_log' = r.t.log
           /\ bb_delta_c' = r.bb_delta_c
           /\ before_trial' = [ctx |-> place_move_ctx, net_cost |-> net_cost,
                               bb_cost |-> costs_bb_cost, costed |-> r.t.costed]
    /\ pc' = "evaluated"
    /\ last_op' = "try"
    /\ num_try' = num_try + 1
    /\ UNCHANGED <<fanout_arg, crossing_ret>>
    /\ panel_unchanged
    /\ UNCHANGED <<cube_bb, num_layers, place_move_ctx, net_cost, costs_bb_cost>>

\* The annealer accepts the move: update_move_nets, and the tracked cost
\* takes the delta.
UpdateMoveNets ==
    /\ pc = "evaluated"
    /\ \E m \in {update_move_nets(num_affected_nets, cube_bb)} :
           /\ place_move_ctx' = m.ctx
           /\ net_cost' = m.net_cost
           /\ proposed_net_cost' = m.proposed_net_cost
           /\ bb_updated_before' = m.bb_updated_before
    /\ costs_bb_cost' = costs_bb_cost + bb_delta_c
    /\ pc' = "idle"
    /\ last_op' = "commit"
    /\ ts_unchanged
    /\ call_unchanged
    /\ panel_unchanged
    /\ UNCHANGED <<cube_bb, num_layers, block_locs, blocks_affected, num_affected_nets,
                   bb_delta_c, touch_log, before_trial>>

\* The annealer rejects the move: reset_move_nets, and the blocks go back.
ResetMoveNets ==
    /\ pc = "evaluated"
    /\ \E m \in {reset_move_nets(num_affected_nets)} :
           /\ place_move_ctx' = m.ctx
           /\ net_cost' = m.net_cost
           /\ proposed_net_cost' = m.proposed_net_cost
           /\ bb_updated_before' = m.bb_updated_before
    /\ block_locs' = revert_move_blocks(blocks_affected, block_locs)
    /\ pc' = "idle"
    /\ last_op' = "reset"
    /\ ts_unchanged
    /\ call_unchanged
    /\ panel_unchanged
    /\ UNCHANGED <<cube_bb, num_layers, blocks_affected, num_affected_nets, bb_delta_c,
                   costs_bb_cost, touch_log, before_trial>>

\* recompute_costs_from_scratch, bounding-box cost: a fatal error leaves the
\* tracked cost as it was.
RecomputeCostsFromScratch ==
    /\ pc = "idle"
    /\ LET new_bb_cost == recompute_bb_cost
       IN  IF exceeds_error_tol(new_bb_cost, costs_bb_cost)
           THEN /\ pc' = "fatal"
                /\ costs_bb_cost' = costs_bb_cost
           ELSE /\ pc' = "idle"
                /\ costs_bb_cost' = new_bb_cost
    /\ ts_unchanged
    /\ call_unchanged
    /\ panel_unchanged
    /\ UNCHANGED <<cube_bb, num_layers, block_locs, place_move_ctx, net_cost, proposed_net_cost,
                   bb_updated_before, blocks_affected, num_affected_nets, bb_delta_c,
                   touch_log, before_trial, last_op>>

Next ==
    \/ CompBbCost
    \/ CompLayerBbCost
    \/ \E blk \in Blocks : \E to \in Sites(block_type(blk)) : TryMove(blk, to)
    \/ UpdateMoveNets
    \/ ResetMoveNets
    \/ RecomputeCostsFromScratch

Spec == Init /\ [][Next]_vars

(***************************************************************************)
(* The consistency check on its own.  The program adds the delta of every  *)
(* accepted move to costs->bb_cost in floating point, so the tracked cost  *)
(* drifts from the sum of the net costs; the drift is drawn here.          *)
(***************************************************************************)
\* Tracked costs at, next to and far from the two edges of the tolerance
\* band around the cost c.
TrackedNear(c) ==
    {c, c + 1, c - 1, 2 * c, c \div 2, 0,
     c + c \div (ErrorTolInverse - 1),
     c + c \div (ErrorTolInverse - 1) + 1,
     c - c \div (ErrorTolInverse + 1),
     c - c \div (ErrorTolInverse + 1) - 1,
     c - c \div (ErrorTolInverse + 1) + 1}

InitRecompute ==
    /\ cube_bb \in BOOLEAN
    /\ num_layers = NumLayers
    /\ block_locs \in Placements
    /\ InitTrialStructs
    /\ \E r \in {comp_cost_from([ctx |-> DefaultCtx,
                                 net_cost |-> [n \in Nets |-> -1],
                                 proposed_net_cost |-> [n \in Nets |-> -1],
                                 bb_updated_before |-> [n \in Nets |-> NOT_UPDATED_YET]],
                                1, 0, block_locs, cube_bb)} :
          /\ place_move_ctx = r.m.ctx
          /\ net_cost = r.m.net_cost
          /\ costs_bb_cost \in TrackedNear(r.cost)
    /\ last_op = "comp"
    /\ pc = "idle"
    /\ fanout_arg = 0
    /\ crossing_ret = 0
    /\ InitPanel
    /\ InitNoCall

NextRecompute == RecomputeCostsFromScratch

SpecRecompute == InitRecompute /\ [][NextRecompute]_vars

(***************************************************************************)
(* The crossing count on its own, for net sizes beyond those of the        *)
(* netlist above.                                                          *)
(***************************************************************************)
MaxFanout == 120

InitCrossing ==
    /\ cube_bb = TRUE
    /\ num_layers = NumLayers
    /\ block_locs = CHOOSE p \in Placements : TRUE
    /\ InitStructs
    /\ pc = "idle"
    /\ fanout_arg \in 1 .. MaxFanout
    /\ crossing_ret = 0
    /\ InitPanel
    /\ InitNoCall

WirelengthCrossingCount ==
    /\ last_op = "none"
    /\ crossing_ret' = wirelength_crossing_count(fanout_arg)
    /\ last_op' = "crossing"
    /\ ts_unchanged
    /\ UNCHANGED <<cube_bb, num_layers, block_locs, place_move_ctx, net_cost, proposed_net_cost,
                   bb_updated_before, pc, blocks_affected, num_affected_nets,
                   bb_delta_c, costs_bb_cost, touch_log, before_trial, fanout_arg,
                   num_try>>
    /\ panel_unchanged

NextCrossing == WirelengthCrossingCount

SpecCrossing == InitCrossing /\ [][NextCrossing]_vars


(***************************************************************************)
(* The channel cost factors on their own, for an axis whose channels all   *)
(* have the same width.                                                    *)
(***************************************************************************)
MaxChanWidth == 5
MaxExp == 2
MaxDim == 5

\* alloc_and_load_for_fast_cost_update for one axis of the given size: the
\* triangular table [high][low], low <= high.
place_cost_fac_table(list, size, exp) ==
    [high \in 0 .. (size - 1) |->
        [low \in 0 .. high |-> place_cost_fac(list, high, low, exp)]]

\* An axis of the device and the exponent the placer was given.
InitChanFac ==
    /\ cube_bb = TRUE
    /\ num_layers = NumLayers
    /\ block_locs = CHOOSE p \in Placements : TRUE
    /\ InitStructs
    /\ pc = "idle"
    /\ fanout_arg = 0
    /\ crossing_ret = 0
    /\ InitPanel
    /\ \E c \in 0 .. MaxChanWidth, size \in 1 .. MaxDim, exp \in 1 .. MaxExp :
          call = [fn |-> "none", chan_width |-> c, size |-> size,
                  place_cost_exp |-> exp, fac |-> <<>>]

engine_unchanged ==
    /\ ts_unchanged
    /\ UNCHANGED <<cube_bb, num_layers, block_locs, place_move_ctx, net_cost, proposed_net_cost,
                   bb_updated_before, pc, blocks_affected, num_affected_nets,
                   bb_delta_c, costs_bb_cost, touch_log, before_trial, fanout_arg,
                   num_try, last_op, crossing_ret>>

AllocAndLoadForFastCostUpdate ==
    /\ call.fn = "none"
    /\ call' = [call EXCEPT
                  !.fn = "alloc_and_load_for_fast_cost_update",
                  !.fac = place_cost_fac_table([i \in 0 .. (call.size - 1) |-> call.chan_width],
                                               call.size, call.place_cost_exp)]
    /\ engine_unchanged
    /\ UNCHANGED <<manual_moves_global, gui>>

NextChanFac == AllocAndLoadForFastCostUpdate

SpecChanFac == InitChanFac /\ [][NextChanFac]_vars


(***************************************************************************)
(* The manual move panel.  Text fields hold sequences of characters; the   *)
(* netlist's blocks have the ids 0, 1, 2 and the names b0, b1, b2; every   *)
(* tile holds one block, in sub-tile 0.                                    *)
(***************************************************************************)
Digits == <<"0", "1", "2", "3", "4", "5", "6", "7", "8", "9">>
isdigit(c) == \E d \in 1 .. Len(Digits) : Digits[d] = c
digit_value(c) == (CHOOSE d \in 1 .. Len(Digits) : Digits[d] = c) - 1

\* string_is_a_number: no character that is not a digit (so: the empty text too).
string_is_a_number(block_id) == \A i \in 1 .. Len(block_id) : isdigit(block_id[i])

\* std::atoi on a text without blanks or sign: the value of the leading
\* digits, 0 when there are none.
RECURSIVE atoi_from(_, _, _)
atoi_from(s, i, acc) ==
    IF i > Len(s) \/ ~isdigit(s[i]) THEN acc
    ELSE atoi_from(s, i + 1, 10 * acc + digit_value(s[i]))
atoi(s) == atoi_from(s, 1, 0)

\* std::to_string of an int.
RECURSIVE to_string(_)
to_string(n) ==
    IF n < 0 THEN <<"-">> \o to_string(0 - n)
    ELSE IF n < 10 THEN <<Digits[n + 1]>>
    ELSE to_string(n \div 10) \o <<Digits[(n % 10) + 1]>>

\* clb_nlist: block id -> block, and its name as the text a user types.
clb_block == [id \in 0 .. 2 |-> IF id = 0 THEN "b0" ELSE IF id = 1 THEN "b1" ELSE "b2"]
block_name(id) == <<"b">> \o to_string(id)
valid_block_id(id) == id \in DOMAIN clb_block
\* clb_nlist.find_block, converted as the callback does: size_t, then int.
find_block(name) ==
    IF \E id \in DOMAIN clb_block : block_name(id) = name
    THEN CHOOSE id \in DOMAIN clb_block : block_name(id) = name
    ELSE -1

\* The location of a block as the panel reads it, and a panel location as
\* the placer's tables hold it.
loc_of(locs, id) == t_pl_loc(locs[clb_block[id]].x, locs[clb_block[id]].y, 0)
site_of(to) == [x |-> to.x, y |-> to.y, layer |-> 0]

\* compatible_sub_tiles_for_tile of the block's type at the destination tile.
compatible_sub_tiles(id, to) ==
    IF site_of(to) \in Sites(block_type(clb_block[id])) THEN {0} ELSE {}

\* is_legal_swap_to_location: on the grid, on a tile of the block's type, in
\* a sub-tile that tile has.
is_legal_swap_to_location(id, to) ==
    /\ to.x \in 0 .. (W - 1)
    /\ to.y \in 0 .. (H - 1)
    /\ to.sub_tile \in compatible_sub_tiles(id, to)

\* The id the callback takes from the block field: the number typed, or the
\* id of the block of that name.
parse_block_id(block_txt) ==
    IF string_is_a_number(block_txt) THEN atoi(block_txt) ELSE find_block(block_txt)

\* What reading block_locs at an id can do: for an id of the netlist it reads
\* the block's location; for any other id the read is out of range.
BlockLocsReads(id) ==
    IF valid_block_id(id) THEN {"in_range"}
    ELSE {"crash", "reads_the_destination", "reads_another_location"}

\* invalid_breakpoint_entry_window texts
InvalidBlock == "Invalid block ID/Name"
SameLocation == "The block is currently in this location"
Incomplete == "Not all fields are complete"

\* The else branch of calculate_cost_callback: the input was rejected.
reject_input_clearing(mmg) == [mmg EXCEPT !.manual_move_info = DefaultManualMovesInfo]
reject_input(mmg) == [mmg EXCEPT !.manual_move_info.valid_input = FALSE]

calculate_cost_callback_without_legality(mmg, locs, block_txt, x_txt, y_txt, st_txt, read) ==
    LET block_id == parse_block_id(block_txt)
        known == valid_block_id(block_id)
        to == t_pl_loc(atoi(x_txt), atoi(y_txt), atoi(st_txt))
        legal == IF known THEN is_legal_swap_to_location(block_id, to) ELSE FALSE
        same == IF known THEN to = loc_of(locs, block_id)
                ELSE read = "reads_the_destination"
        empty == <<>> \in {block_txt, x_txt, y_txt, st_txt}
        dialogs == (IF known THEN <<>> ELSE <<InvalidBlock>>)
                   \o (IF same THEN <<SameLocation>> ELSE <<>>)
                   \o (IF empty THEN <<Incomplete>> ELSE <<>>)
        valid_input == known /\ ~same /\ ~empty
    IN  IF ~known /\ read = "crash"
        THEN [mmg |-> mmg, dialogs |-> <<InvalidBlock>>, proceed |-> FALSE,
              highlighted |-> -1, crashed |-> TRUE]
        ELSE IF valid_input
        THEN [mmg |-> [mmg EXCEPT !.manual_move_info.valid_input = TRUE,
                                  !.manual_move_info.blockID = block_id,
                                  !.manual_move_info.x_pos = to.x,
                                  !.manual_move_info.y_pos = to.y,
                                  !.manual_move_info.subtile = to.sub_tile,
                                  !.manual_move_info.to_location = to],
              dialogs |-> dialogs, proceed |-> TRUE, highlighted |-> block_id,
              crashed |-> FALSE]
        ELSE [mmg |-> reject_input(mmg),
              dialogs |-> dialogs, proceed |-> FALSE, highlighted |-> -1,
              crashed |-> FALSE]

\* calculate_cost_callback on the four entry texts; read is what the read of
\* block_locs does when the id is not one of the netlist.  The result is the
\* global record, the dialogs shown, whether the proceed button was
\* pressed, the block highlighted and whether the process died.
calculate_cost_callback(mmg, locs, block_txt, x_txt, y_txt, st_txt, read) ==
    LET block_id == parse_block_id(block_txt)
        known == valid_block_id(block_id)
        to == t_pl_loc(atoi(x_txt), atoi(y_txt), atoi(st_txt))
        legal == IF known THEN is_legal_swap_to_location(block_id, to) ELSE FALSE
        same == IF known THEN to = loc_of(locs, block_id)
                ELSE read = "reads_the_destination"
        empty == <<>> \in {block_txt, x_txt, y_txt, st_txt}
        dialogs == (IF known THEN <<>> ELSE <<InvalidBlock>>)
                   \o (IF same THEN <<SameLocation>> ELSE <<>>)
                   \o (IF empty THEN <<Incomplete>> ELSE <<>>)
        valid_input == known /\ legal /\ ~same /\ ~empty
    IN  IF ~known /\ read = "crash"
        THEN [mmg |-> mmg, dialogs |-> <<InvalidBlock>>, proceed |-> FALSE,
              highlighted |-> -1, crashed |-> TRUE]
        ELSE IF valid_input
        THEN [mmg |-> [mmg EXCEPT !.manual_move_info.valid_input = TRUE,
                                  !.manual_move_info.blockID = block_id,
                                  !.manual_move_info.x_pos = to.x,
                                  !.manual_move_info.y_pos = to.y,
                                  !.manual_move_info.subtile = to.sub_tile,
                                  !.manual_move_info.to_location = to],
              dialogs |-> dialogs, proceed |-> TRUE, highlighted |-> block_id,
              crashed |-> FALSE]
        ELSE [mmg |-> reject_input(mmg),
              dialogs |-> dialogs, proceed |-> FALSE, highlighted |-> -1,
              crashed |-> FALSE]


\* e_create_move
VALID == "VALID"
ABORT == "ABORT"

\* ::create_move: the move of b_from to the destination, swapping with the
\* block that sits there.
create_move(affected, b_from, to) ==
    [ret |-> VALID, blocks_affected |-> moved_blocks_of(clb_block[b_from], site_of(to))]

\* ManualMoveGenerator::propose_move: the record, the location table and the
\* caller's blocks_affected after the call, and the value returned.
propose_move_consuming(mmg, locs, affected) ==
    LET block_id == mmg.manual_move_info.blockID
        to == mmg.manual_move_info.to_location
        used == [mmg EXCEPT !.manual_move_info.blockID = -1]
    IN  IF block_id = -1 \/ to.sub_tile \notin compatible_sub_tiles(block_id, to)
        THEN [mmg |-> used, locs |-> locs, ret |-> ABORT, blocks_affected |-> affected]
        ELSE [mmg |-> used, locs |-> locs] @@ create_move(affected, block_id, to)
propose_move(mmg, locs, affected) ==
    LET block_id == mmg.manual_move_info.blockID
        to == mmg.manual_move_info.to_location
    IN  IF block_id = -1
        THEN [mmg |-> mmg, locs |-> locs, ret |-> ABORT, blocks_affected |-> affected]
        ELSE IF to.sub_tile \notin compatible_sub_tiles(block_id, to)
        THEN [mmg |-> mmg, locs |-> locs, ret |-> ABORT, blocks_affected |-> affected]
        ELSE [mmg |-> mmg, locs |-> locs] @@ create_move(affected, block_id, to)

\* update_manual_move_costs
update_manual_move_costs(mmg, d_cost, d_timing, d_bounding_box, move_outcome) ==
    [mmg EXCEPT !.manual_move_info.delta_cost = d_cost,
                !.manual_move_info.delta_timing = d_timing,
                !.manual_move_info.delta_bounding_box = d_bounding_box,
                !.manual_move_info.placer_move_outcome = move_outcome]

\* What gtk_dialog_run can return for the cost dialog: its two buttons, the
\* dismissal of the dialog, its destruction.
Responses == {"GTK_RESPONSE_ACCEPT", "GTK_RESPONSE_REJECT",
              "GTK_RESPONSE_DELETE_EVENT", "GTK_RESPONSE_NONE"}

\* The message the cost dialog prepares for an accepted move.
accepted_msg(info) ==
    <<"Manual move accepted. Block #">> \o to_string(info.blockID)
        \o <<" to location (">> \o to_string(info.x_pos)
        \o <<", ">> \o to_string(info.y_pos) \o <<")">>

\* cost_summary_dialog: the record after the dialog and the messages it
\* passed to update_message.
cost_summary_dialog_rejecting(mmg, result) ==
    IF result = "GTK_RESPONSE_ACCEPT"
    THEN [mmg |-> [mmg EXCEPT !.manual_move_info.user_move_outcome = ACCEPTED],
          message |-> <<accepted_msg(mmg.manual_move_info)>>]
    ELSE [mmg |-> [mmg EXCEPT !.manual_move_info.user_move_outcome = REJECTED],
          message |-> <<<<"Manual move was rejected">>>>]
cost_summary_dialog(mmg, result) ==
    IF result = "GTK_RESPONSE_ACCEPT"
    THEN [mmg |-> [mmg EXCEPT !.manual_move_info.user_move_outcome = ACCEPTED],
          message |-> <<accepted_msg(mmg.manual_move_info)>>]
    ELSE IF result = "GTK_RESPONSE_REJECT"
    THEN [mmg |-> [mmg EXCEPT !.manual_move_info.user_move_outcome = REJECTED],
          message |-> <<<<"Manual move was rejected">>>>]
    ELSE [mmg |-> [mmg EXCEPT !.manual_move_info.user_move_outcome = ABORTED],
          message |-> <<>>]

\* draw_manual_moves_window: the record, the number of windows and the text
\* of the block entry of the newest window.
draw_manual_moves_window_again(mmg, windows, entry, block_id) ==
    [mmg |-> [mmg EXCEPT !.mm_window_is_open = TRUE, !.user_highlighted_block = FALSE],
     windows |-> windows + 1,
     block_entry |-> IF mmg.user_highlighted_block THEN block_id ELSE <<>>]
draw_manual_moves_window(mmg, windows, entry, block_id) ==
    IF ~mmg.mm_window_is_open
    THEN [mmg |-> [mmg EXCEPT !.mm_window_is_open = TRUE, !.user_highlighted_block = FALSE],
          windows |-> windows + 1,
          block_entry |-> IF mmg.user_highlighted_block THEN block_id ELSE <<>>]
    ELSE [mmg |-> mmg, windows |-> windows, block_entry |-> entry]

\* close_manual_moves_window
close_manual_moves_window(mmg) == [mmg EXCEPT !.mm_window_is_open = FALSE]


\* What a user can type in the block field and in the three destination
\* fields: nothing, an id, a name, and texts that name no block or tile.
MaxColumn == 2
BlockTexts == {<<>>, <<"7">>, <<"z">>, to_string(1), block_name(2)}
XTexts == {<<>>} \cup {to_string(x) : x \in 1 .. MaxColumn}
YTexts == {<<>>, to_string(1)}
SubtileTexts == {<<>>, <<"0">>, <<"1">>}

\* The block the user has selected in the placement view.
SelectedIds == {id \in DOMAIN clb_block : id = 1}

\* The costs and the decision the annealer reports for a proposed move.
MoveCosts == {<<-3, -1, -2>>}

\* The placement the panel works on.
ManualPlacement ==
    [b \in Blocks |->
        IF b = "b0" THEN [x |-> 0, y |-> 1, layer |-> 0]
        ELSE IF b = "b1" THEN [x |-> 1, y |-> 1, layer |-> 0]
        ELSE [x |-> 2, y |-> 1, layer |-> 0]]

InitManual ==
    /\ cube_bb = TRUE
    /\ num_layers = NumLayers
    /\ block_locs = ManualPlacement
    /\ InitStructs
    /\ pc = "idle"
    /\ fanout_arg = 0
    /\ crossing_ret = 0
    /\ InitPanel
    /\ InitNoCall

\* The toolkit's record when a handler starts: nothing shown yet.
handled(name) ==
    [gui EXCEPT !.last = name, !.dialogs = <<>>, !.proceed = FALSE,
                !.message = <<>>, !.highlighted = -1, !.ret = "none"]

\* The user selects a block in the placement view.
HighlightBlock ==
    /\ ~gui.crashed
    /\ manual_moves_global' = [manual_moves_global EXCEPT !.user_highlighted_block = TRUE]
    /\ gui' = handled("highlight")
    /\ engine_unchanged
    /\ call' = NoCall

DrawManualMovesWindow ==
    /\ ~gui.crashed
    /\ \E id \in SelectedIds :
         \E r \in {draw_manual_moves_window(manual_moves_global, gui.windows,
                                            gui.block_entry, to_string(id))} :
            /\ manual_moves_global' = r.mmg
            /\ gui' = [handled("draw_manual_moves_window") EXCEPT
                          !.windows = r.windows, !.block_entry = r.block_entry]
    /\ engine_unchanged
    /\ call' = NoCall

\* The window is destroyed and its destroy handler runs.
CloseManualMovesWindow ==
    /\ ~gui.crashed
    /\ gui.windows > 0
    /\ manual_moves_global' = close_manual_moves_window(manual_moves_global)
    /\ gui' = [handled("close_manual_moves_window") EXCEPT !.windows = gui.windows - 1]
    /\ engine_unchanged
    /\ call' = NoCall

\* What was submitted: whether the block field names no block of the
\* netlist, whether the destination is where that block sits, whether a
\* field was left empty, whether the destination fails the legality check.
\* The action adds what the read of block_locs at the id did.
submitted(block_txt, x_txt, y_txt, st_txt) ==
    LET id == parse_block_id(block_txt)
    IN  [fn |-> "calculate_cost_callback",
         unresolved |-> ~valid_block_id(id),
         at_current |-> /\ valid_block_id(id)
                        /\ block_locs[clb_block[id]].x = atoi(x_txt)
                        /\ block_locs[clb_block[id]].y = atoi(y_txt)
                        /\ atoi(st_txt) = 0,
         incomplete |-> \E t \in {block_txt, x_txt, y_txt, st_txt} : Len(t) = 0,
         illegal |-> /\ valid_block_id(id)
                     /\ ~is_legal_swap_to_location(id,
                            t_pl_loc(atoi(x_txt), atoi(y_txt), atoi(st_txt)))]

\* The user presses the button of the window.
CalculateCostCallback ==
    /\ ~gui.crashed
    /\ gui.windows > 0
    /\ \E block_txt \in BlockTexts, x_txt \in XTexts, y_txt \in YTexts,
          st_txt \in SubtileTexts :
       \E read \in BlockLocsReads(parse_block_id(block_txt)) :
         \E r \in {calculate_cost_callback(manual_moves_global, block_locs, block_txt,
                                           x_txt, y_txt, st_txt, read)} :
            /\ manual_moves_global' = r.mmg
            /\ gui' = [handled("calculate_cost_callback") EXCEPT
                          !.dialogs = r.dialogs, !.proceed = r.proceed,
                          !.highlighted = r.highlighted, !.crashed = r.crashed]
            /\ call' = submitted(block_txt, x_txt, y_txt, st_txt) @@ [read |-> read]
    /\ engine_unchanged

\* The placer asks the manual move generator for a move.
ProposeMove ==
    /\ ~gui.crashed
    /\ \E r \in {propose_move(manual_moves_global, block_locs, blocks_affected)} :
          /\ manual_moves_global' = r.mmg
          /\ block_locs' = r.locs
          /\ blocks_affected' = r.blocks_affected
          /\ gui' = [handled("propose_move") EXCEPT !.ret = r.ret]
    /\ ts_unchanged
    /\ UNCHANGED <<cube_bb, num_layers, place_move_ctx, net_cost, proposed_net_cost,
                   bb_updated_before, pc, num_affected_nets, bb_delta_c,
                   costs_bb_cost, touch_log, before_trial, fanout_arg, num_try,
                   last_op, crossing_ret>>
    /\ call' = NoCall

\* The placer has evaluated the proposed move.
UpdateManualMoveCosts ==
    /\ ~gui.crashed
    /\ gui.last = "propose_move"
    /\ gui.ret = VALID
    /\ \E d \in MoveCosts, move_outcome \in {ACCEPTED, REJECTED} :
          manual_moves_global' =
              update_manual_move_costs(manual_moves_global, d[1], d[2], d[3], move_outcome)
    /\ gui' = handled("update_manual_move_costs")
    /\ engine_unchanged
    /\ call' = NoCall

CostSummaryDialog ==
    /\ ~gui.crashed
    /\ gui.last = "update_manual_move_costs"
    /\ \E result \in Responses :
         \E r \in {cost_summary_dialog(manual_moves_global, result)} :
            /\ manual_moves_global' = r.mmg
            /\ gui' = [handled("cost_summary_dialog") EXCEPT
                          !.message = r.message, !.ret = result]
    /\ engine_unchanged
    /\ call' = NoCall

NextManual ==
    \/ HighlightBlock
    \/ DrawManualMovesWindow
    \/ CloseManualMovesWindow
    \/ CalculateCostCallback
    \/ ProposeMove
    \/ UpdateManualMoveCosts
    \/ CostSummaryDialog

SpecManual == InitManual /\ [][NextManual]_vars


(***************************************************************************)
(* Block memories of the netlist elaborator: the address width a memory    *)
(* needs, and the lowering of a memory to a hard block.  An address is the *)
(* list of the nets its pins are on.                                       *)
(***************************************************************************)
MaxDepth == 130
MaxPorts == 3
MaxAddrWidth == 2

\* shift_left_value_with_overflow_check(0X1, n)
shift_left_one(n) == IntPow(2, n)

\* perform_optimization: the loop that computes needed_addr_width.
RECURSIVE needed_addr_width_loop(_, _, _)
needed_addr_width_loop(depth, needed_addr_width, shifted_value) ==
    IF shifted_value < depth
    THEN needed_addr_width_loop(depth, needed_addr_width + 1,
                                shift_left_one(needed_addr_width + 1))
    ELSE needed_addr_width

\* perform_optimization: the ABITS it stores for a memory of the given depth.
perform_optimization(depth) == needed_addr_width_loop(depth, 0, 0)

\* The pin of the merged clock of a memory, bram->clk->pins[0].
clk_pin == [port |-> "clk", bit |-> 1]

\* check_same_addrs
check_same_addrs_by_width(read_addr, write_addr) == Len(read_addr) = Len(write_addr)
check_same_addrs(read_addr, write_addr) ==
    IF Len(read_addr) # Len(write_addr) THEN FALSE
    ELSE \A i \in 1 .. Len(read_addr) : read_addr[i] = write_addr[i]

\* An address list padded with pad pins up to the given width.
padded(addr, width) == addr \o [i \in 1 .. (width - Len(addr)) |-> "pad"]

\* create_rw_single_port_ram and create_rw_dual_port_ram: both assert one
\* read and one write port, then build the signals of the hard block.
create_rw_single_port_ram(mem) ==
    IF mem.rd_ports # 1 \/ mem.wr_ports # 1
    THEN [routine |-> "create_rw_single_port_ram", out |-> "oassert"]
    ELSE [routine |-> "create_rw_single_port_ram", out |-> "single_port_ram",
          addr |-> mem.read_addr, clk |-> mem.clk[1]]
create_rw_dual_port_ram(mem) ==
    IF mem.rd_ports # 1 \/ mem.wr_ports # 1
    THEN [routine |-> "create_rw_dual_port_ram", out |-> "oassert"]
    ELSE LET max_addr_width == Max(Len(mem.read_addr), Len(mem.write_addr))
         IN  [routine |-> "create_rw_dual_port_ram", out |-> "dual_port_ram",
              addr1 |-> padded(mem.read_addr, max_addr_width),
              addr2 |-> padded(mem.write_addr, max_addr_width),
              clk |-> mem.clk[1]]

\* The test that sends a memory to the fabric RAM: the architecture has the
\* model and the area of the memory lies between the two thresholds.
lutram_gate(mem) == mem.lutram_model /\ mem.area_in_window

\* error_message is fatal: the text and the name it is given.
error_message(text, name) == [routine |-> "error_message", out |-> <<text, name>>]

\* map_bram_to_mem_hardblocks: the routine it ends in and what that builds.
\* The test of the first branch compares wr_ports with the truth value of
\* rd_ports == 1 taken as an integer.
map_bram_to_mem_hardblocks(mem) ==
    IF lutram_gate(mem) THEN [routine |-> "none", out |-> "none"]
    ELSE IF mem.wr_ports = (IF mem.rd_ports = 1 THEN 1 ELSE 0)
    THEN IF check_same_addrs(mem.read_addr, mem.write_addr)
         THEN create_rw_single_port_ram(mem)
         ELSE create_rw_dual_port_ram(mem)
    ELSE IF mem.rd_ports = 1 /\ mem.wr_ports = 2
    THEN [routine |-> "create_r2w_dual_port_ram", out |-> "dual_port_ram"]
    ELSE IF mem.rd_ports = 2 /\ mem.wr_ports = 1
    THEN [routine |-> "create_2rw_dual_port_ram", out |-> "dual_port_ram"]
    ELSE IF mem.rd_ports = 2 /\ mem.wr_ports = 2
    THEN [routine |-> "create_2r2w_dual_port_ram", out |-> "dual_port_ram"]
    ELSE error_message("Invalid memory block (%s)! Odin does not support Memories with more than two write/read ports",
                       mem.name)

\* map_rom_to_mem_hardblocks
map_rom_to_mem_hardblocks(mem) ==
    IF mem.wr_ports # 0 THEN [routine |-> "none", out |-> "oassert"]
    ELSE IF lutram_gate(mem) THEN [routine |-> "none", out |-> "none"]
    ELSE IF mem.rd_ports = 1
    THEN [routine |-> "create_r_single_port_ram", out |-> "single_port_ram"]
    ELSE IF mem.rd_ports = 2
    THEN [routine |-> "create_2r_dual_port_ram", out |-> "dual_port_ram"]
    ELSE error_message("Cannot hook multiple write ports into a Read-Only Memory (%s)",
                       mem.name)

\* Address lists of up to MaxAddrWidth pins over two nets.
AddrLists ==
    UNION {[1 .. n -> {"a0", "a1"}] : n \in 1 .. MaxAddrWidth}

\* The engine and the panel at rest.
InitIdle ==
    /\ cube_bb = TRUE
    /\ num_layers = NumLayers
    /\ block_locs = ManualPlacement
    /\ InitStructs
    /\ pc = "idle"
    /\ fanout_arg = 0
    /\ crossing_ret = 0
    /\ InitPanel

\* A memory of some depth, before resolve_bram_node or resolve_rom_node
\* optimizes it.
InitAddrWidth ==
    /\ InitIdle
    /\ \E depth \in 1 .. MaxDepth :
          call = [fn |-> "none", size |-> depth, ABITS |-> 32]

PerformOptimization ==
    /\ call.fn = "none"
    /\ call' = [call EXCEPT !.fn = "perform_optimization",
                            !.ABITS = perform_optimization(call.size)]
    /\ engine_unchanged
    /\ UNCHANGED <<manual_moves_global, gui>>

NextAddrWidth == PerformOptimization

SpecAddrWidth == InitAddrWidth /\ [][NextAddrWidth]_vars

\* A memory on the read/write list or on the read-only list, as
\* iterate_block_memories finds it.
InitMemories ==
    /\ InitIdle
    /\ \E list \in {"block_memory_list", "read_only_memory_list"},
          rd \in 0 .. MaxPorts, wr \in 0 .. MaxPorts,
          ra \in AddrLists, wa \in AddrLists, model \in BOOLEAN, window \in BOOLEAN :
          call = [fn |-> "none", list |-> list,
                  mem |-> [name |-> "mem0", rd_ports |-> rd, wr_ports |-> wr,
                           read_addr |-> ra, write_addr |-> wa, clk |-> <<clk_pin>>,
                           lutram_model |-> model, area_in_window |-> window],
                  result |-> [routine |-> "none", out |-> "none"]]

\* iterate_block_memories on a memory of the read/write list.
MapBramToMemHardblocks ==
    /\ call.fn = "none"
    /\ call.list = "block_memory_list"
    /\ call' = [call EXCEPT !.fn = "map_bram_to_mem_hardblocks",
                            !.result = map_bram_to_mem_hardblocks(call.mem)]
    /\ engine_unchanged
    /\ UNCHANGED <<manual_moves_global, gui>>

\* iterate_block_memories on a memory of the read-only list.
MapRomToMemHardblocks ==
    /\ call.fn = "none"
    /\ call.list = "read_only_memory_list"
    /\ call' = [call EXCEPT !.fn = "map_rom_to_mem_hardblocks",
                            !.result = map_rom_to_mem_hardblocks(call.mem)]
    /\ engine_unchanged
    /\ UNCHANGED <<manual_moves_global, gui>>

NextMemories == MapBramToMemHardblocks \/ MapRomToMemHardblocks

SpecMemories == InitMemories /\ [][NextMemories]_vars


(***************************************************************************)
(* The two passes over the memories of a netlist: resolve_bram_node and    *)
(* resolve_rom_node register the memory of each node as the traversal      *)
(* visits it, iterate_block_memories then lowers the registered memories.  *)
(***************************************************************************)
MaxNodes == 3

\* The memory cells a netlist can hold: the list its node is registered on
\* and the memory built from the node.
a_mem(rd, wr, wa, model) ==
    [name |-> "mem", rd_ports |-> rd, wr_ports |-> wr, read_addr |-> <<"a0">>,
     write_addr |-> wa, clk |-> <<clk_pin>>, lutram_model |-> model,
     area_in_window |-> model]
MemoryCells ==
    {[cell |-> "bram", mem |-> a_mem(1, 1, <<"a0">>, FALSE)],
     [cell |-> "bram", mem |-> a_mem(1, 2, <<"a1">>, FALSE)],
     [cell |-> "bram", mem |-> a_mem(3, 1, <<"a1">>, FALSE)],
     [cell |-> "bram", mem |-> a_mem(1, 1, <<"a1">>, TRUE)],
     [cell |-> "rom", mem |-> a_mem(1, 0, <<>>, FALSE)],
     [cell |-> "rom", mem |-> a_mem(3, 0, <<>>, FALSE)]}

\* error_message and a failed oassert end the process.
is_fatal(result) == result.routine = "error_message" \/ result.out = "oassert"

\* One while loop of iterate_block_memories: the calls made on the list from
\* position i on, each with the node it was made on, whether that node had
\* been released before the call, and what the call ended in; walk is the
\* log so far, the nodes released so far and whether the process has died.
RECURSIVE map_list(_, _, _, _, _)
map_list(list, i, fn, netlist, walk) ==
    IF i > Len(list) \/ walk.fatal THEN walk
    ELSE LET node == list[i]
             result == IF fn = "map_bram_to_mem_hardblocks"
                       THEN map_bram_to_mem_hardblocks(netlist[node].mem)
                       ELSE map_rom_to_mem_hardblocks(netlist[node].mem)
             fatal == is_fatal(result)
             lowered == ~fatal /\ result.out \in {"single_port_ram", "dual_port_ram"}
         IN  map_list(list, i + 1, fn, netlist,
                      [log |-> Append(walk.log,
                                      [node |-> node, fn |-> fn, routine |-> result.routine,
                                       released_before |-> node \in walk.released]),
                       released |-> IF lowered THEN walk.released \cup {node}
                                    ELSE walk.released,
                       fatal |-> fatal])

\* iterate_block_memories
iterate_block_memories_roms_first(block_memory_list, read_only_memory_list, netlist) ==
    map_list(block_memory_list, 1, "map_bram_to_mem_hardblocks", netlist,
             map_list(read_only_memory_list, 1, "map_rom_to_mem_hardblocks", netlist,
                      [log |-> <<>>, released |-> {}, fatal |-> FALSE]))
iterate_block_memories(block_memory_list, read_only_memory_list, netlist) ==
    map_list(read_only_memory_list, 1, "map_rom_to_mem_hardblocks", netlist,
             map_list(block_memory_list, 1, "map_bram_to_mem_hardblocks", netlist,
                      [log |-> <<>>, released |-> {}, fatal |-> FALSE]))

\* A netlist whose memory nodes the traversal has yet to visit.
InitIterate ==
    /\ InitIdle
    /\ \E netlist \in [1 .. MaxNodes -> MemoryCells] :
          call = [fn |-> "none", netlist |-> netlist, visited |-> 0,
                  block_memory_list |-> <<>>, read_only_memory_list |-> <<>>,
                  walk |-> [log |-> <<>>, released |-> {}, fatal |-> FALSE]]

\* resolve_bram_node on the next node of the traversal: the new memory goes
\* on the read/write list.
ResolveBramNode ==
    /\ call.fn # "iterate_block_memories"
    /\ call.visited < MaxNodes
    /\ call.netlist[call.visited + 1].cell = "bram"
    /\ call' = [call EXCEPT !.fn = "resolve_bram_node",
                            !.visited = call.visited + 1,
                            !.block_memory_list = Append(@, call.visited + 1)]
    /\ engine_unchanged
    /\ UNCHANGED <<manual_moves_global, gui>>

\* resolve_rom_node on the next node: the new memory goes on the read-only list.
ResolveRomNode ==
    /\ call.fn # "iterate_block_memories"
    /\ call.visited < MaxNodes
    /\ call.netlist[call.visited + 1].cell = "rom"
    /\ call' = [call EXCEPT !.fn = "resolve_rom_node",
                            !.visited = call.visited + 1,
                            !.read_only_memory_list = Append(@, call.visited + 1)]
    /\ engine_unchanged
    /\ UNCHANGED <<manual_moves_global, gui>>

\* The lowering pass, once the traversal has visited every node.
IterateBlockMemories ==
    /\ call.fn # "iterate_block_memories"
    /\ call.visited = MaxNodes
    /\ call' = [call EXCEPT !.fn = "iterate_block_memories",
                            !.walk = iterate_block_memories(call.block_memory_list,
                                                            call.read_only_memory_list,
                                                            call.netlist)]
    /\ engine_unchanged
    /\ UNCHANGED <<manual_moves_global, gui>>

NextIterate == ResolveBramNode \/ ResolveRomNode \/ IterateBlockMemories

SpecIterate == InitIterate /\ [][NextIterate]_vars


(***************************************************************************)
(* Timing-driven trials.  The committed connection delays and timing costs *)
(* are those of the placement the trial starts from; the result of the     *)
(* evaluation is kept in call.                                             *)
(***************************************************************************)
TryMoveTimingDriven(blk, to) ==
    /\ pc = "idle"
    /\ num_try < MaxTrials
    /\ to \in Sites(block_type(blk))
    /\ to.layer < num_layers
    /\ to # block_locs[blk]
    /\ \E moved \in {moved_blocks_of(blk, to)} :
       \E locs \in {apply_move_blocks(moved, block_locs)} :
       \E t \in {trial_scratch_timing_driven} :
       \E r \in {find_affected_nets_and_update_costs(moved, t, locs, cube_bb)} :
           /\ blocks_affected' = moved
           /\ block_locs' = locs
           /\ bb_updated_before' = r.t.flag
           /\ ts_bb_coord_new' = r.t.coord
           /\ ts_bb_edge_new' = r.t.edge
           /\ layer_ts_bb_coord_new' = r.t.lcoord
           /\ layer_ts_bb_edge_new' = r.t.ledge
           /\ ts_layer_sink_pin_count' = r.t.sink
           /\ proposed_net_cost' = r.t.proposed
           /\ ts_nets_to_update' = r.t.nets
           /\ num_affected_nets' = r.t.num
           /\ touch_log' = r.t.log
           /\ bb_delta_c' = r.bb_delta_c
           /\ before_trial' = [ctx |-> place_move_ctx, net_cost |-> net_cost,
                               bb_cost |-> costs_bb_cost, costed |-> r.t.costed]
           /\ call' = [fn |-> "find_affected_nets_and_update_costs",
                       timing_delta_c |-> r.t.timing_delta_c,
                       affected_pins |-> r.t.affected_pins,
                       connection_delay |-> r.t.connection_delay,
                       connection_timing_cost |-> r.t.connection_timing_cost,
                       proposed_connection_delay |-> r.t.proposed_connection_delay,
                       proposed_connection_timing_cost |->
                           r.t.proposed_connection_timing_cost]
    /\ pc' = "evaluated"
    /\ last_op' = "try"
    /\ num_try' = num_try + 1
    /\ UNCHANGED <<fanout_arg, crossing_ret, manual_moves_global, gui>>
    /\ UNCHANGED <<cube_bb, num_layers, place_move_ctx, net_cost, costs_bb_cost>>

NextTiming ==
    \/ CompBbCost
    \/ CompLayerBbCost
    \/ \E blk \in Blocks : \E to \in Sites(block_type(blk)) : TryMoveTimingDriven(blk, to)
    \/ UpdateMoveNets
    \/ ResetMoveNets
    \/ RecomputeCostsFromScratch

SpecTiming == Init /\ [][NextTiming]_vars


(***************************************************************************)
(* The placer on a device of a single die.                                 *)
(***************************************************************************)
InitSingleLayer ==
    /\ cube_bb \in BOOLEAN
    /\ num_layers = 1
    /\ block_locs \in {p \in Placements : \A b \in Blocks : p[b].layer < 1}
    /\ InitStructs
    /\ pc = "init"
    /\ fanout_arg = 0
    /\ crossing_ret = 0
    /\ InitPanel
    /\ InitNoCall

SpecSingleLayer == InitSingleLayer /\ [][Next]_vars


(***************************************************************************)
(* The atom-level evaluation of a move.  Each cluster block holds one atom *)
(* whose pins are the pins of the block, so the pins are touched as at     *)
(* cluster level.  The cost loop reads ts_bb_coord_new in either mode; in  *)
(* per-layer mode init_try_swap_net_cost_structs has not sized that array, *)
(* and the read either crashes or yields some box.                         *)
(***************************************************************************)
get_net_bounding_box_cost(net_id, bb) ==
    LET crossing == wirelength_crossing_count(Len(net_pins(net_id)))
    IN  (bb.xmax - bb.xmin + 1) * crossing * chanx_place_cost_fac[bb.ymax][bb.ymin - 1]
        + (bb.ymax - bb.ymin + 1) * crossing * chany_place_cost_fac[bb.xmax][bb.xmin - 1]

\* What a read of ts_bb_coord_new[net_id] can give.
TrialBoxReads ==
    IF cube_bb THEN {[crash |-> FALSE, sized |-> TRUE, bb |-> DefaultBB]}
    ELSE {[crash |-> TRUE, sized |-> FALSE, bb |-> DefaultBB]} \cup
         {[crash |-> FALSE, sized |-> FALSE, bb |-> t_bb(x1, W - 2, 1, 1)] :
             x1 \in 1 .. (W - 2)}

RECURSIVE propose_costs_atom(_, _, _, _)
propose_costs_atom(t, inet_affected, delta, read) ==
    IF inet_affected >= t.num THEN [t |-> t, bb_delta_c |-> delta]
    ELSE LET net_id == t.nets[inet_affected]
         IN  Then(get_net_bounding_box_cost(net_id,
                      IF read.sized THEN t.coord[net_id] ELSE read.bb),
                  LAMBDA c :
                     Then([t |-> [t EXCEPT !.proposed[net_id] = c,
                                           !.costed = Append(t.costed,
                                              [net |-> net_id, touches |-> Len(t.log)])],
                           d |-> delta + c - net_cost[net_id]],
                          LAMBDA n : propose_costs_atom(n.t, inet_affected + 1, n.d, read)))

\* find_affected_nets_and_update_costs (atom level)
find_affected_nets_and_update_costs_atom(moved_blocks, t, locs, cube, read) ==
    Then(touch_moved_blocks(moved_blocks, 1, t, locs, cube),
         LAMBDA t1 : IF read.crash THEN [t |-> t1, bb_delta_c |-> 0]
                     ELSE propose_costs_atom(t1, 0, 0, read))

\* A trial evaluated at atom level; call keeps what the cluster-level
\* evaluation gives for the same relocation.
TryMoveAtom(blk, to) ==
    /\ pc = "idle"
    /\ num_try < MaxTrials
    /\ to \in Sites(block_type(blk))
    /\ to.layer < num_layers
    /\ to # block_locs[blk]
    /\ \E moved \in {moved_blocks_of(blk, to)} :
       \E locs \in {apply_move_blocks(moved, block_locs)} :
       \E t \in {trial_scratch} :
       \E read \in TrialBoxReads :
       \E r \in {find_affected_nets_and_update_costs_atom(moved, t, locs, cube_bb, read)} :
       \E c \in {find_affected_nets_and_update_costs(moved, t, locs, cube_bb)} :
           /\ blocks_affected' = moved
           /\ block_locs' = locs
           /\ bb_updated_before' = r.t.flag
           /\ ts_bb_coord_new' = r.t.coord
           /\ ts_bb_edge_new' = r.t.edge
           /\ layer_ts_bb_coord_new' = r.t.lcoord
           /\ layer_ts_bb_edge_new' = r.t.ledge
           /\ ts_layer_sink_pin_count' = r.t.sink
           /\ proposed_net_cost' = r.t.proposed
           /\ ts_nets_to_update' = r.t.nets
           /\ num_affected_nets' = r.t.num
           /\ touch_log' = r.t.log
           /\ bb_delta_c' = r.bb_delta_c
           /\ before_trial' = [ctx |-> place_move_ctx, net_cost |-> net_cost,
                               bb_cost |-> costs_bb_cost, costed |-> r.t.costed]
           /\ call' = [fn |-> "find_affected_nets_and_update_costs_atom",
                       cluster_bb_delta_c |-> c.bb_delta_c,
                       cluster_proposed_net_cost |-> c.t.proposed]
           /\ pc' = IF read.crash THEN "crashed" ELSE "evaluated"
    /\ last_op' = "try"
    /\ num_try' = num_try + 1
    /\ UNCHANGED <<fanout_arg, crossing_ret, manual_moves_global, gui>>
    /\ UNCHANGED <<cube_bb, num_layers, place_move_ctx, net_cost, costs_bb_cost>>

NextAtom ==
    \/ CompBbCost
    \/ CompLayerBbCost
    \/ \E blk \in Blocks : \E to \in Sites(block_type(blk)) : TryMoveAtom(blk, to)
    \/ UpdateMoveNets
    \/ ResetMoveNets

SpecAtom == Init /\ [][NextAtom]_vars


(***************************************************************************)
(* The lowerings of a memory to a hard block, signal by signal.  An        *)
(* address pin carries the name of its net and the names of the pins that  *)
(* check_match_ports reaches through the node driving the net              *)
(* (input_pins[1] and input_pins[1 + input_port_sizes[1]] of the driver);  *)
(* a data, enable or clock pin carries the port it belongs to and its bit. *)
(***************************************************************************)
DataWidth == 1

addr_pins(port, width) ==
    [i \in 1 .. width |-> [name |-> port.name, bit |-> i, via |-> port.via]]
data_pins(port, count) == [i \in 1 .. count |-> [port |-> port, bit |-> i]]

\* get_pad_pin, get_zero_pin and a pin left unconnected
pad_pins(count) == [i \in 1 .. count |-> [port |-> "pad", bit |-> i]]
zero_pin == [port |-> "gnd", bit |-> 1]
unconnected_pins(count) == [i \in 1 .. count |-> [port |-> "unconnected", bit |-> i]]

\* make_chain(LOGICAL_OR, clks, node): the output pin of the chain.
make_chain(gate, pins) == <<[port |-> gate, bit |-> 1, of |-> pins]>>

\* The h-th of the equal parts of a signal list split by bit position.
half(list, width, h) == SubSeq(list, (h - 1) * width + 1, h * width)

\* check_match_ports: the first pin of sig has the name of the first pin of
\* be_checked, or the node driving it has a pin of that name at one of the
\* two positions, or be_checked starts with the pad pin.
check_match_ports(sig, be_checked) ==
    \/ sig[1].name = be_checked[1].name
    \/ be_checked[1].name \in sig[1].via
    \/ be_checked[1].name = "pad"

\* The two matches of a lowering: the two candidates against the port, and,
\* when neither matches, the port against the two candidates.
match_ports(cand1, cand2, port) ==
    LET first_match == check_match_ports(cand1, port)
        second_match == check_match_ports(cand2, port)
    IN  IF ~first_match /\ ~second_match
        THEN [first |-> check_match_ports(port, cand1),
              second |-> check_match_ports(port, cand2)]
        ELSE [first |-> first_match, second |-> second_match]

TwoDistinctPorts == "Cannot map memory block(%s) with more than two distinct ports!"

\* create_r_single_port_ram
create_r_single_port_ram(rom) ==
    IF rom.rd_ports # 1 \/ rom.wr_ports # 0
    THEN [routine |-> "create_r_single_port_ram", out |-> "oassert"]
    ELSE LET read_clk == IF Len(rom.read_clk) > 1
                         THEN make_chain("LOGICAL_OR", rom.read_clk)
                         ELSE rom.read_clk
         IN  [routine |-> "create_r_single_port_ram", out |-> "single_port_ram",
              addr |-> rom.read_addr, clk |-> read_clk[1], data |-> rom.write_data,
              we |-> zero_pin, out1 |-> rom.read_data]

\* create_2r_dual_port_ram
create_2r_dual_port_ram(rom) ==
    IF \/ rom.rd_ports # 2 \/ rom.wr_ports # 0
       \/ Len(rom.read_addr) # 2 * rom.ABITS
       \/ Len(rom.read_data) # 2 * rom.DBITS
    THEN [routine |-> "create_2r_dual_port_ram", out |-> "oassert"]
    ELSE [routine |-> "create_2r_dual_port_ram", out |-> "dual_port_ram",
          addr1 |-> half(rom.read_addr, rom.ABITS, 1), data1 |-> pad_pins(rom.DBITS),
          we1 |-> zero_pin, clk |-> rom.clk[1],
          out1 |-> half(rom.read_data, rom.DBITS, 1),
          addr2 |-> half(rom.read_addr, rom.ABITS, 2), we2 |-> zero_pin,
          data2 |-> pad_pins(rom.DBITS), out2 |-> half(rom.read_data, rom.DBITS, 2)]

\* create_r2w_dual_port_ram
create_r2w_dual_port_ram(bram) ==
    IF bram.rd_ports # 1 \/ bram.wr_ports # 2
    THEN [routine |-> "create_r2w_dual_port_ram", out |-> "oassert"]
    ELSE LET wr_addr1 == half(bram.write_addr, bram.ABITS, 1)
             wr_addr2 == half(bram.write_addr, bram.ABITS, 2)
             wr_data1 == half(bram.write_data, bram.DBITS, 1)
             wr_data2 == half(bram.write_data, bram.DBITS, 2)
             wr_en1 == half(bram.write_en, bram.DBITS, 1)
             wr_en2 == half(bram.write_en, bram.DBITS, 2)
             m == match_ports(wr_addr1, wr_addr2, bram.read_addr)
             we1 == IF m.first THEN wr_en1 ELSE wr_en2
             we2 == IF m.first THEN wr_en2 ELSE wr_en1
         IN  IF ~m.first /\ ~m.second
             THEN error_message(TwoDistinctPorts, bram.name)
             ELSE [routine |-> "create_r2w_dual_port_ram", out |-> "dual_port_ram",
                   addr1 |-> bram.read_addr,
                   data1 |-> IF m.first THEN wr_data1 ELSE wr_data2,
                   we1 |-> we1[1], clk |-> bram.clk[1], out1 |-> bram.read_data,
                   addr2 |-> IF m.first THEN wr_addr2 ELSE wr_addr1,
                   we2 |-> we2[1],
                   data2 |-> IF m.first THEN wr_data2 ELSE wr_data1,
                   out2 |-> unconnected_pins(Len(bram.read_data))]

\* create_2rw_dual_port_ram
create_2rw_dual_port_ram(bram) ==
    IF bram.rd_ports # 2 \/ bram.wr_ports # 1
    THEN [routine |-> "create_2rw_dual_port_ram", out |-> "oassert"]
    ELSE LET we1 == half(bram.write_en, bram.DBITS, 1)
             rd_addr1 == half(bram.read_addr, bram.ABITS, 1)
             rd_addr2 == half(bram.read_addr, bram.ABITS, 2)
             rd_data1 == half(bram.read_data, bram.DBITS, 1)
             rd_data2 == half(bram.read_data, bram.DBITS, 2)
             first_match == check_match_ports(bram.write_addr, rd_addr1)
             second_match == check_match_ports(bram.write_addr, rd_addr2)
             m == IF ~first_match /\ ~second_match
                  THEN [first |-> check_match_ports(rd_addr1, bram.write_addr),
                        second |-> check_match_ports(rd_addr2, bram.write_addr)]
                  ELSE [first |-> first_match, second |-> second_match]
         IN  IF ~m.first /\ ~m.second
             THEN error_message(TwoDistinctPorts, bram.name)
             ELSE [routine |-> "create_2rw_dual_port_ram", out |-> "dual_port_ram",
                   addr1 |-> bram.write_addr,
                   data1 |-> half(bram.write_data, bram.DBITS, 1),
                   we1 |-> we1[1],
                   out1 |-> IF m.first THEN rd_data1 ELSE rd_data2,
                   clk |-> bram.clk[1],
                   addr2 |-> IF m.first THEN rd_addr2 ELSE rd_addr1,
                   we2 |-> zero_pin, data2 |-> pad_pins(bram.DBITS),
                   out2 |-> IF m.first THEN rd_data2 ELSE rd_data1]

\* create_2r2w_dual_port_ram
create_2r2w_dual_port_ram(bram) ==
    IF \/ bram.rd_ports # 2 \/ bram.wr_ports # 2
       \/ Len(bram.read_addr) # 2 * bram.ABITS
       \/ Len(bram.read_data) # 2 * bram.DBITS
    THEN [routine |-> "create_2r2w_dual_port_ram", out |-> "oassert"]
    ELSE LET wr_addr1 == half(bram.write_addr, bram.ABITS, 1)
             wr_addr2 == half(bram.write_addr, bram.ABITS, 2)
             wr_data1 == half(bram.write_data, bram.DBITS, 1)
             wr_data2 == half(bram.write_data, bram.DBITS, 2)
             wr_en1 == half(bram.write_en, bram.DBITS, 1)
             wr_en2 == half(bram.write_en, bram.DBITS, 2)
             rd_addr1 == half(bram.read_addr, bram.ABITS, 1)
             rd_addr2 == half(bram.read_addr, bram.ABITS, 2)
             read1 == match_ports(wr_addr1, wr_addr2, rd_addr1)
             read2 == match_ports(wr_addr1, wr_addr2, rd_addr2)
         IN  IF ~read1.first /\ ~read1.second /\ ~read2.first /\ ~read2.second
             THEN error_message(TwoDistinctPorts, bram.name)
             ELSE IF ~(read1.first # read2.first \/ read1.second # read2.second)
             THEN [routine |-> "create_2r2w_dual_port_ram", out |-> "oassert"]
             ELSE [routine |-> "create_2r2w_dual_port_ram", out |-> "dual_port_ram",
                   addr1 |-> rd_addr1, addr2 |-> rd_addr2,
                   out1 |-> half(bram.read_data, bram.DBITS, 1),
                   out2 |-> half(bram.read_data, bram.DBITS, 2),
                   data1 |-> IF read1.first THEN wr_data1 ELSE wr_data2,
                   data2 |-> IF read2.first THEN wr_data1 ELSE wr_data2,
                   we1 |-> wr_en1[1], clk |-> bram.clk[1], we2 |-> wr_en2[1]]

\* The address ports a memory can have, and the memories the lowerings are
\* given: perform_optimization has left ABITS pins to each address port.
AddrNames == {"a0", "a1", "a2", "pad"}
AddrPorts ==
    {[name |-> n, via |-> v] : n \in AddrNames \ {"pad"}, v \in {{}, {"a0"}, {"a1"}}}
        \cup {[name |-> "pad", via |-> {}]}

RECURSIVE port_pins(_, _)
port_pins(ports, width) ==
    IF ports = <<>> THEN <<>>
    ELSE addr_pins(Head(ports), width) \o port_pins(Tail(ports), width)

block_memory(rd_addrs, wr_addrs) ==
    [name |-> "mem0", rd_ports |-> Len(rd_addrs), wr_ports |-> Len(wr_addrs),
     ABITS |-> MaxAddrWidth, DBITS |-> DataWidth,
     read_addr |-> port_pins(rd_addrs, MaxAddrWidth),
     write_addr |-> port_pins(wr_addrs, MaxAddrWidth),
     read_clk |-> data_pins("read_clk", Len(rd_addrs)),
     write_clk |-> data_pins("write_clk", Len(wr_addrs)),
     read_data |-> data_pins("read_data", Len(rd_addrs) * DataWidth),
     write_data |-> IF wr_addrs = <<>> THEN pad_pins(DataWidth)
                    ELSE data_pins("write_data", Len(wr_addrs) * DataWidth),
     write_en |-> data_pins("write_en", Len(wr_addrs) * DataWidth),
     clk |-> <<clk_pin>>, lutram_model |-> FALSE, area_in_window |-> FALSE]

InitLowering ==
    /\ InitIdle
    /\ \E rd \in 1 .. 2, wr \in 0 .. 2 :
       \E rd_addrs \in [1 .. rd -> AddrPorts], wr_addrs \in [1 .. wr -> AddrPorts] :
          call = [fn |-> "none", mem |-> block_memory(rd_addrs, wr_addrs),
                  result |-> [routine |-> "none", out |-> "none"]]

\* One branch of map_bram_to_mem_hardblocks or map_rom_to_mem_hardblocks on
\* the memory: the routine the branch calls.
Lower(fn, result) ==
    /\ call.fn = "none"
    /\ call' = [call EXCEPT !.fn = fn, !.result = result]
    /\ engine_unchanged
    /\ UNCHANGED <<manual_moves_global, gui>>

CreateRSinglePortRam ==
    /\ call.mem.wr_ports = 0
    /\ call.mem.rd_ports = 1
    /\ Lower("map_rom_to_mem_hardblocks", create_r_single_port_ram(call.mem))

Create2rDualPortRam ==
    /\ call.mem.wr_ports = 0
    /\ call.mem.rd_ports = 2
    /\ Lower("map_rom_to_mem_hardblocks", create_2r_dual_port_ram(call.mem))

CreateRwSinglePortRam ==
    /\ call.mem.wr_ports = 1
    /\ call.mem.rd_ports = 1
    /\ check_same_addrs(call.mem.read_addr, call.mem.write_addr)
    /\ Lower("map_bram_to_mem_hardblocks", create_rw_single_port_ram(call.mem))

CreateRwDualPortRam ==
    /\ call.mem.wr_ports = 1
    /\ call.mem.rd_ports = 1
    /\ ~check_same_addrs(call.mem.read_addr, call.mem.write_addr)
    /\ Lower("map_bram_to_mem_hardblocks", create_rw_dual_port_ram(call.mem))

CreateR2wDualPortRam ==
    /\ call.mem.rd_ports = 1
    /\ call.mem.wr_ports = 2
    /\ Lower("map_bram_to_mem_hardblocks", create_r2w_dual_port_ram(call.mem))

Create2rwDualPortRam ==
    /\ call.mem.rd_ports = 2
    /\ call.mem.wr_ports = 1
    /\ Lower("map_bram_to_mem_hardblocks", create_2rw_dual_port_ram(call.mem))

Create2r2wDualPortRam ==
    /\ call.mem.rd_ports = 2
    /\ call.mem.wr_ports = 2
    /\ Lower("map_bram_to_mem_hardblocks", create_2r2w_dual_port_ram(call.mem))

NextLowering ==
    \/ CreateRSinglePortRam
    \/ Create2rDualPortRam
    \/ CreateRwSinglePortRam
    \/ CreateRwDualPortRam
    \/ CreateR2wDualPortRam
    \/ Create2rwDualPortRam
    \/ Create2r2wDualPortRam

SpecLowering == InitLowering /\ [][NextLowering]_vars


(***************************************************************************)
(* The registries of memories.  resolve_bram_node and resolve_rom_node     *)
(* build the record of a node, its merged clock included, and register it  *)
(* under its name; free_block_memories releases the records once the       *)
(* memories are lowered.  A gate is its type and its input pins; the       *)
(* netlist is its list of clock nodes.                                     *)
(***************************************************************************)
MaxClocks == 2

gate(type, inputs) == [type |-> type, inputs |-> inputs]

\* merge_read_write_clks: an OR gate over the read and the write clocks and a
\* NOT gate on its output; the pin returned is the output of the NOT gate.
merge_read_write_clks(rd_clks, wr_clks, netlist) ==
    LET nor_gate == gate("LOGICAL_OR", rd_clks \o wr_clks)
        clk_node == gate("LOGICAL_NOT", <<nor_gate>>)
    IN  [clk |-> <<clk_node>>, netlist |-> netlist]

\* create_single_clk_pin: an OR chain over the clocks, a NOR gate of the zero
\* pin and the chain, a NOT gate on its output; the NOT gate is added to the
\* clocks of the netlist.
create_single_clk_pin(clks, netlist) ==
    LET clk_chain == gate("LOGICAL_OR", clks)
        nor_gate == gate("LOGICAL_NOR", <<zero_pin, clk_chain>>)
        clk_node == gate("LOGICAL_NOT", <<nor_gate>>)
    IN  [clk |-> <<clk_node>>,
         netlist |-> [netlist EXCEPT !.clocks = Append(@, clk_node)]]

\* init_block_memory: the record of a read/write memory node, and the
\* registry and the netlist after it.
init_block_memory(node, registries, netlist) ==
    LET read_clk == data_pins(<<node.name, "read_clk">>, node.clocks)
        write_clk == data_pins(<<node.name, "write_clk">>, node.clocks)
        merged == merge_read_write_clks(read_clk, write_clk, netlist)
        bram == [name |-> node.name, read_clk |-> read_clk, write_clk |-> write_clk,
                 clk |-> merged.clk]
    IN  [memory |-> bram,
         registries |-> [registries EXCEPT !.block_memories = @ \cup {bram}],
         netlist |-> merged.netlist]

\* init_read_only_memory
init_read_only_memory(node, registries, netlist) ==
    LET read_clk == data_pins(<<node.name, "read_clk">>, node.clocks)
        single == create_single_clk_pin(read_clk, netlist)
        rom == [name |-> node.name, read_clk |-> read_clk, write_clk |-> <<>>,
                clk |-> single.clk]
    IN  [memory |-> rom,
         registries |-> [registries EXCEPT !.read_only_memories = @ \cup {rom}],
         netlist |-> single.netlist]

\* free_block_memory_index: every record of the table it is given is
\* released; the table is a by-value parameter, so the clear() at the end
\* empties the copy, and the registry it was copied from is as before.
free_block_memory_index(to_free, freed) ==
    [table |-> to_free, freed |-> freed \cup {m.name : m \in to_free}]

\* free_block_memories: for each of the two lists, when the list is not
\* empty, the registry of the list is handed to free_block_memory_index and
\* the list is deleted cell by cell.
free_block_memories(registries, lists, freed) ==
    LET brams == IF lists.block_memory_list # <<>>
                 THEN free_block_memory_index(registries.block_memories, freed)
                 ELSE [table |-> registries.block_memories, freed |-> freed]
        roms == IF lists.read_only_memory_list # <<>>
                THEN free_block_memory_index(registries.read_only_memories, brams.freed)
                ELSE [table |-> registries.read_only_memories, freed |-> brams.freed]
    IN  [registries |-> [block_memories |-> brams.table,
                         read_only_memories |-> roms.table],
         lists |-> [block_memory_list |-> <<>>, read_only_memory_list |-> <<>>],
         freed |-> roms.freed]

\* lookup_block_memory: the record of that name in the read/write registry,
\* or NULL.
NULL == [name |-> "NULL"]
lookup_block_memory(registries, name) ==
    IF \E m \in registries.block_memories : m.name = name
    THEN CHOOSE m \in registries.block_memories : m.name = name
    ELSE NULL

\* The memory nodes of a netlist: node i is a read/write or a read-only
\* memory with some number of clocks per direction.
MemoryNodeNames == {"n1", "n2", "n3", "n4"}
memory_node_name(i) == <<"n1", "n2", "n3", "n4">>[i]
MemoryNodes == {[cell |-> c, clocks |-> k] : c \in {"bram", "rom"}, k \in 1 .. MaxClocks}

InitRegistry ==
    /\ InitIdle
    /\ \E n \in 0 .. MaxNodes :
       \E nodes \in [1 .. n -> MemoryNodes] :
          call = [fn |-> "init_block_memory_index", nodes |-> nodes, visited |-> 0,
                  registries |-> [block_memories |-> {}, read_only_memories |-> {}],
                  lists |-> [block_memory_list |-> <<>>, read_only_memory_list |-> <<>>],
                  netlist |-> [clocks |-> <<>>],
                  freed |-> {}, memory |-> NULL, clocks_before |-> <<>>, ret |-> NULL]

\* resolve_bram_node on the next memory node of the traversal.
ResolveBramNodeInRegistry ==
    /\ call.fn \in {"init_block_memory_index", "resolve_bram_node", "resolve_rom_node"}
    /\ call.visited < Len(call.nodes)
    /\ call.nodes[call.visited + 1].cell = "bram"
    /\ \E r \in {init_block_memory([name |-> memory_node_name(call.visited + 1),
                                    clocks |-> call.nodes[call.visited + 1].clocks],
                                   call.registries, call.netlist)} :
          call' = [call EXCEPT !.fn = "resolve_bram_node",
                               !.visited = @ + 1,
                               !.registries = r.registries,
                               !.netlist = r.netlist,
                               !.lists.block_memory_list = <<r.memory.name>> \o @,
                               !.memory = r.memory,
                               !.clocks_before = call.netlist.clocks]
    /\ engine_unchanged
    /\ UNCHANGED <<manual_moves_global, gui>>

\* resolve_rom_node on the next memory node of the traversal.
ResolveRomNodeInRegistry ==
    /\ call.fn \in {"init_block_memory_index", "resolve_bram_node", "resolve_rom_node"}
    /\ call.visited < Len(call.nodes)
    /\ call.nodes[call.visited + 1].cell = "rom"
    /\ \E r \in {init_read_only_memory([name |-> memory_node_name(call.visited + 1),
                                        clocks |-> call.nodes[call.visited + 1].clocks],
                                       call.registries, call.netlist)} :
          call' = [call EXCEPT !.fn = "resolve_rom_node",
                               !.visited = @ + 1,
                               !.registries = r.registries,
                               !.netlist = r.netlist,
                               !.lists.read_only_memory_list = <<r.memory.name>> \o @,
                               !.memory = r.memory,
                               !.clocks_before = call.netlist.clocks]
    /\ engine_unchanged
    /\ UNCHANGED <<manual_moves_global, gui>>

\* free_block_memories, once the traversal is over.
FreeBlockMemories ==
    /\ call.fn \in {"init_block_memory_index", "resolve_bram_node", "resolve_rom_node"}
    /\ call.visited = Len(call.nodes)
    /\ \E r \in {free_block_memories(call.registries, call.lists, call.freed)} :
          call' = [call EXCEPT !.fn = "free_block_memories",
                               !.registries = r.registries,
                               !.lists = r.lists,
                               !.freed = r.freed]
    /\ engine_unchanged
    /\ UNCHANGED <<manual_moves_global, gui>>

\* lookup_block_memory after free_block_memories.
LookupBlockMemory ==
    /\ call.fn = "free_block_memories"
    /\ \E name \in MemoryNodeNames :
          call' = [call EXCEPT !.fn = "lookup_block_memory",
                               !.ret = lookup_block_memory(call.registries, name)]
    /\ engine_unchanged
    /\ UNCHANGED <<manual_moves_global, gui>>

NextRegistry ==
    \/ ResolveBramNodeInRegistry
    \/ ResolveRomNodeInRegistry
    \/ FreeBlockMemories
    \/ LookupBlockMemory

SpecRegistry == InitRegistry /\ [][NextRegistry]_vars


(***************************************************************************)
(* perform_optimization on the address lists of a memory.  An address list *)
(* holds the pins of its ports one port after the other, addr_width pins   *)
(* to a port; the list of a memory without write ports is NULL.            *)
(***************************************************************************)
\* prune_signal: when the signals are wider than prune_size, the low
\* prune_size pins of each of them; otherwise the list as it is.
RECURSIVE prune_signal(_, _, _, _)
prune_signal(signalsvar, signal_width, prune_size, num_of_signals) ==
    IF prune_size >= signal_width \/ num_of_signals = 0 THEN signalsvar
    ELSE SubSeq(signalsvar, 1, prune_size)
            \o prune_signal(SubSeq(signalsvar, signal_width + 1, Len(signalsvar)),
                            signal_width, prune_size, num_of_signals - 1)

\* perform_optimization: the memory after it.
optimized_memory(memory) ==
    LET needed_addr_width == perform_optimization(memory.size)
    IN  [memory EXCEPT
            !.read_addr = IF memory.read_addr # <<>>
                          THEN prune_signal(memory.read_addr, memory.ABITS,
                                            needed_addr_width, memory.rd_ports)
                          ELSE memory.read_addr,
            !.write_addr = IF memory.write_addr # <<>>
                           THEN prune_signal(memory.write_addr, memory.ABITS,
                                             needed_addr_width, memory.wr_ports)
                           ELSE memory.write_addr,
            !.ABITS = needed_addr_width]

\* A memory as init_block_memory or init_read_only_memory leaves it: each
\* address list holds ABITS pins for each port.
InitPrune ==
    /\ InitIdle
    /\ \E size \in 1 .. MaxDepth, addr_width \in 1 .. (MaxAddrWidth + 1),
          rd \in 1 .. 2, wr \in 0 .. 2 :
          call = [fn |-> "none",
                  original |-> addr_width,
                  mem |-> [size |-> size, ABITS |-> addr_width,
                           rd_ports |-> rd, wr_ports |-> wr,
                           read_addr |-> data_pins("read_addr", rd * addr_width),
                           write_addr |-> data_pins("write_addr", wr * addr_width)]]

PerformOptimizationOnLists ==
    /\ call.fn = "none"
    /\ call' = [call EXCEPT !.fn = "perform_optimization",
                            !.mem = optimized_memory(call.mem)]
    /\ engine_unchanged
    /\ UNCHANGED <<manual_moves_global, gui>>

NextPrune == PerformOptimizationOnLists

SpecPrune == InitPrune /\ [][NextPrune]_vars


(***************************************************************************)
(* Properties.                                                             *)
(***************************************************************************)
RealNets == {n \in Nets : ~net_is_ignored(n)}
BigNets == {n \in RealNets : Len(net_sinks(n)) >= SMALL_NET}

RECURSIVE SumOver(_, _)
SumOver(S, f) ==
    IF S = {} THEN 0
    ELSE LET n == CHOOSE n \in S : TRUE IN f[n] + SumOver(S \ {n}, f)

\* C1: in cube mode, between trials, the committed box of every net that is
\* not ignored has the coordinates get_bb_from_scratch computes from the
\* current block locations, a net of at least SMALL_NET sinks also has its
\* edge counts, and the tracked cost is the from-scratch cost.
C1_CubeIncrementalIsFromScratch ==
    (cube_bb /\ pc = "idle") =>
        /\ \A n \in RealNets :
              place_move_ctx.bb_coords[n] = get_bb_from_scratch(n, block_locs).coords
        /\ \A n \in BigNets :
              place_move_ctx.bb_num_on_edges[n]
                  = get_bb_from_scratch(n, block_locs).num_on_edges
        /\ costs_bb_cost =
              SumOver(RealNets, [n \in RealNets |->
                  get_net_cost(n, get_bb_from_scratch(n, block_locs).coords)])

\* A second committed trial whose evaluation updated a large net's box
\* incrementally.
C1_Witness ==
    /\ cube_bb
    /\ pc = "idle"
    /\ last_op = "commit"
    /\ num_try = 2
    /\ \E i \in 1 .. Len(touch_log) :
          /\ touch_log[i].net \in BigNets
          /\ touch_log[i].after.flag = UPDATED_ONCE
          /\ touch_log[i].after.coord # touch_log[i].before.coord

\* C2: in per-layer mode, between trials, the committed per-layer boxes of
\* every net that is not ignored have the coordinates, and for a net of at
\* least SMALL_NET sinks the edge counts, and the sink counts per layer that
\* get_layer_bb_from_scratch computes from the current block locations.
C2_LayerIncrementalIsFromScratch ==
    (~cube_bb /\ pc = "idle") =>
        /\ \A n \in RealNets :
              /\ place_move_ctx.layer_bb_coords[n]
                    = get_layer_bb_from_scratch(n, block_locs).coords
              /\ place_move_ctx.num_sink_pin_layer[n]
                    = get_layer_bb_from_scratch(n, block_locs).layer_pin_sink_count
        /\ \A n \in BigNets :
              place_move_ctx.layer_bb_num_on_edges[n]
                  = get_layer_bb_from_scratch(n, block_locs).num_on_edges

\* C3: a trial that is evaluated and then rolled back leaves the committed
\* cost, box, edge counts and sink counts of every net as they were before
\* the trial.
C3_RollbackRestoresCommitted ==
    last_op = "reset" =>
        /\ net_cost = before_trial.net_cost
        /\ place_move_ctx = before_trial.ctx
        /\ costs_bb_cost = before_trial.bb_cost

\* A rolled back trial that had proposed another cost for a net.
C3_Witness ==
    /\ last_op = "reset"
    /\ num_affected_nets > 0
    /\ bb_delta_c # 0
    /\ \E n \in RealNets :
          IF cube_bb THEN ts_bb_coord_new[n] # place_move_ctx.bb_coords[n]
          ELSE layer_ts_bb_coord_new[n] # place_move_ctx.layer_bb_coords[n]

\* The cost function of the mode on the committed box and sink counts.
CommittedBoxCost(n) ==
    IF cube_bb THEN get_net_cost(n, place_move_ctx.bb_coords[n])
    ELSE get_net_layer_cost(n, place_move_ctx.layer_bb_coords[n],
                            place_move_ctx.num_sink_pin_layer[n])

\* C4: between trials the committed cost of every net that is not ignored is
\* the cost function of the mode on the net's committed box and sink counts.
C4_CommittedCostIsCostOfCommittedBox ==
    pc = "idle" => \A n \in RealNets : net_cost[n] = CommittedBoxCost(n)

\* A commit that changed the cost of a net.
C4_Witness ==
    /\ pc = "idle"
    /\ last_op = "commit"
    /\ \E n \in RealNets : net_cost[n] # before_trial.net_cost[n]

\* C5: when no trial is in flight every net has the flag NOT_UPDATED_YET and
\* a negative proposed cost.
C5_NoTrialNoFlagNoSentinel ==
    pc \in {"init", "idle"} =>
        \A n \in Nets : bb_updated_before[n] = NOT_UPDATED_YET /\ proposed_net_cost[n] < 0

\* A trial that touched two nets, one of them updated incrementally, is over.
C5_Witness ==
    /\ pc = "idle"
    /\ last_op \in {"commit", "reset"}
    /\ num_affected_nets = 2
    /\ \E i \in 1 .. Len(touch_log) : touch_log[i].after.flag # NOT_UPDATED_YET

\* C6: within a trial every touch of a net that is not ignored leaves the
\* net's flag at UPDATED_ONCE or GOT_FROM_SCRATCH: the first touch takes it
\* away from NOT_UPDATED_YET and no later touch brings it back.
C6_TouchLeavesFlagUpdated ==
    \A i \in 1 .. Len(touch_log) :
        touch_log[i].after.flag \in {UPDATED_ONCE, GOT_FROM_SCRATCH}

\* C7: a touch of a net whose flag is GOT_FROM_SCRATCH leaves the net's
\* trial box, edge counts, sink counts and flag as they were.
C7_FromScratchIsTerminal ==
    \A i \in 1 .. Len(touch_log) :
        touch_log[i].before.flag = GOT_FROM_SCRATCH =>
            touch_log[i].after = touch_log[i].before

\* A net is touched after a rescan in the same trial, per-layer mode.
C7_Witness ==
    /\ pc = "evaluated"
    /\ ~cube_bb
    /\ \E i \in 1 .. Len(touch_log) : touch_log[i].before.flag = GOT_FROM_SCRATCH

InRange(bb) ==
    /\ bb.xmin \in 1 .. (W - 2)
    /\ bb.xmax \in 1 .. (W - 2)
    /\ bb.ymin \in 1 .. (H - 2)
    /\ bb.ymax \in 1 .. (H - 2)

\* C8: every box the engine has computed, committed or of a trial, from
\* scratch or incrementally, has its x coordinates in 1 .. W-2 and its y
\* coordinates in 1 .. H-2.  A box that was never computed holds OPEN.
C8_BoxesWithinDevice ==
    /\ pc # "init" =>
          \A n \in RealNets :
              IF cube_bb THEN InRange(place_move_ctx.bb_coords[n])
              ELSE \A l \in Layers : InRange(place_move_ctx.layer_bb_coords[n][l])
    /\ \A n \in RealNets :
          /\ ts_bb_coord_new[n] = DefaultBB \/ InRange(ts_bb_coord_new[n])
          /\ \/ layer_ts_bb_coord_new[n] = [l \in Layers |-> Default2DBB]
             \/ \A l \in Layers : InRange(layer_ts_bb_coord_new[n][l])

\* The io block sits in the last column and the box of its large net was
\* updated incrementally in the trial.
C8_Witness ==
    /\ pc = "evaluated"
    /\ block_locs["b0"].x = W - 1
    /\ \E i \in 1 .. Len(touch_log) :
          /\ touch_log[i].pin = "a0"
          /\ touch_log[i].after.flag = UPDATED_ONCE
    /\ IF cube_bb THEN ts_bb_coord_new["nA"].xmax = W - 2
       ELSE layer_ts_bb_coord_new["nA"][0].xmax = W - 2

\* C9: recompute_costs_from_scratch is fatal exactly when the sum of the net
\* costs differs from the tracked cost by more than one hundredth of the
\* tracked cost; the fatal path leaves the tracked cost alone, the other
\* replaces it by the sum.
C9_FatalBeyondTolerance ==
    [][LET new_bb_cost == SumOver(RealNets, net_cost)
       IN  IF Abs(new_bb_cost - costs_bb_cost) > costs_bb_cost \div 100
           THEN pc' = "fatal" /\ costs_bb_cost' = costs_bb_cost
           ELSE pc' = "idle" /\ costs_bb_cost' = new_bb_cost]_vars

\* The recomputation was fatal and the tracked cost still differs from the sum.
C9_Witness ==
    /\ pc = "fatal"
    /\ costs_bb_cost # SumOver(RealNets, net_cost)
    /\ costs_bb_cost > 0

\* C10: the crossing count is 1.0 for 1, 2 and 3 pins, 2.7933 for 50,
\* 2.81946 for 51 and 4.1013 for 100; cross_count[fanout - 1] up to 50 pins
\* and 2.7933 + 0.02616 * (fanout - 50) beyond.  Values times CrossScale.
C10_CrossingCountValues ==
    last_op = "crossing" =>
        /\ fanout_arg \in {1, 2, 3} => crossing_ret = 100000
        /\ fanout_arg = 50 => crossing_ret = 279330
        /\ fanout_arg = 51 => crossing_ret = 281946
        /\ fanout_arg = 100 => crossing_ret = 410130
        /\ fanout_arg <= 50 => crossing_ret = cross_count[fanout_arg]
        /\ fanout_arg > 50 => crossing_ret = 279330 + 2616 * (fanout_arg - 50)

\* The call for 100 pins returned.
C10_Witness ==
    /\ last_op = "crossing"
    /\ fanout_arg = 100
    /\ crossing_ret = 410130

\* C11: after alloc_and_load_for_fast_cost_update with every channel of the
\* axis of the same width c >= 0 (c = 0 included), for all
\* low <= high <= high' the factor at [high'][low] is not greater than the
\* factor at [high][low].
C11_FactorNonIncreasingInSpan ==
    call.fn = "alloc_and_load_for_fast_cost_update" =>
        \A high2 \in 0 .. (call.size - 1) : \A high \in 0 .. high2 : \A low \in 0 .. high :
            call.fac[high2][low] <= call.fac[high][low]

\* C12: ManualMoveGenerator::propose_move returns only VALID or ABORT and
\* its only effect is on blocks_affected: a call, whether it returns ABORT or
\* VALID, leaves the block location table, the manual move request record and
\* the net cost state as they were.
C12_ProposeMoveOnlyPopulatesBlocksAffected ==
    [][gui'.last = "propose_move" =>
          /\ gui'.ret \in {VALID, ABORT}
          /\ block_locs' = block_locs
          /\ manual_moves_global' = manual_moves_global
          /\ UNCHANGED <<place_move_ctx, net_cost, proposed_net_cost,
                         bb_updated_before, costs_bb_cost, bb_delta_c>>
          /\ ts_unchanged]_vars

\* propose_move has returned VALID with a swap of two blocks in blocks_affected.
C12_Witness ==
    /\ gui.last = "propose_move"
    /\ gui.ret = VALID
    /\ Len(blocks_affected) = 2

\* C13: propose_move returns ABORT whenever the request holds no currently
\* validated block id (the last submission was rejected, or none was ever
\* accepted); after a valid submission followed by a rejected one it does
\* not propose the earlier move.
C13_AbortWithoutValidatedBlock ==
    (gui.last = "propose_move" /\ ~manual_moves_global.manual_move_info.valid_input)
        => gui.ret = ABORT

\* C14: on submit, a destination equal to the block's current location
\* yields "The block is currently in this location", an identifier that
\* names no block of the netlist yields "Invalid block ID/Name", an empty
\* field yields "Not all fields are complete"; in each of these cases the
\* request is marked not valid and the proceed button is not pressed.
C14_RejectionDiagnostics ==
    gui.last = "calculate_cost_callback" =>
        LET shown == {gui.dialogs[i] : i \in 1 .. Len(gui.dialogs)}
        IN  /\ call.at_current => SameLocation \in shown
            /\ call.unresolved => InvalidBlock \in shown
            /\ call.incomplete => Incomplete \in shown
            /\ (call.at_current \/ call.unresolved \/ call.incomplete) =>
                  /\ ~manual_moves_global.manual_move_info.valid_input
                  /\ ~gui.proceed

\* C15 as stated: a submission that calculate_cost_callback rejects leaves
\* every field of the process-wide record as it was.
C15_RejectedSubmissionMutatesNothing ==
    [][(gui'.last = "calculate_cost_callback" /\ ~gui'.proceed) =>
          manual_moves_global' = manual_moves_global]_vars

\* C15 as amended: a submission that calculate_cost_callback rejects changes
\* no field of the process-wide record other than the validity flag, which
\* is false once the callback has run to its end.
C15_RejectedSubmissionOnlyClearsValidity ==
    [][(gui'.last = "calculate_cost_callback" /\ ~gui'.proceed) =>
          manual_moves_global' =
              IF gui'.crashed THEN manual_moves_global
              ELSE [manual_moves_global EXCEPT !.manual_move_info.valid_input = FALSE]]_vars

\* A submission was rejected after an earlier one had been accepted: the
\* request still names the block of the accepted one.
C15_Witness ==
    /\ gui.last = "calculate_cost_callback"
    /\ ~gui.proceed
    /\ ~gui.crashed
    /\ manual_moves_global.manual_move_info.blockID # -1
    /\ ~manual_moves_global.manual_move_info.valid_input

\* C16: cost_summary_dialog records ACCEPTED exactly on the Accept response,
\* REJECTED exactly on Reject and ABORTED on every other response; it emits
\* "Manual move accepted. Block #<id> to location (<x>, <y>)" on Accept,
\* "Manual move was rejected" on Reject and no message otherwise; it changes
\* nothing but user_move_outcome.
C16_DialogVerdict ==
    [][gui'.last = "cost_summary_dialog" =>
          LET info == manual_moves_global.manual_move_info
              verdict == IF gui'.ret = "GTK_RESPONSE_ACCEPT" THEN ACCEPTED
                         ELSE IF gui'.ret = "GTK_RESPONSE_REJECT" THEN REJECTED
                         ELSE ABORTED
              digit(n) == Digits[n + 1]
          IN  /\ manual_moves_global' =
                    [manual_moves_global EXCEPT !.manual_move_info.user_move_outcome = verdict]
              /\ verdict = ACCEPTED =>
                    gui'.message = <<<<"Manual move accepted. Block #", digit(info.blockID),
                                       " to location (", digit(info.x_pos), ", ",
                                       digit(info.y_pos), ")">>>>
              /\ verdict = REJECTED => gui'.message = <<<<"Manual move was rejected">>>>
              /\ verdict = ABORTED => gui'.message = <<>>]_vars

\* The cost dialog of an evaluated move was dismissed.
C16_Witness ==
    /\ gui.last = "cost_summary_dialog"
    /\ gui.ret = "GTK_RESPONSE_DELETE_EVENT"
    /\ manual_moves_global.manual_move_info.user_move_outcome = ABORTED
    /\ manual_moves_global.manual_move_info.placer_move_outcome = ACCEPTED

\* C17: under any sequence of open requests and window destructions there
\* is at most one manual move window and mm_window_is_open is true exactly
\* while it exists; an open request while the window is open creates nothing
\* and changes nothing, an open request while it is closed creates a window.
C17_AtMostOneWindow ==
    /\ [](gui.windows <= 1 /\ (manual_moves_global.mm_window_is_open <=> gui.windows = 1))
    /\ [][gui'.last = "draw_manual_moves_window" =>
             IF manual_moves_global.mm_window_is_open
             THEN /\ manual_moves_global' = manual_moves_global
                  /\ gui'.windows = gui.windows
                  /\ gui'.block_entry = gui.block_entry
             ELSE /\ gui'.windows = gui.windows + 1
                  /\ manual_moves_global'.mm_window_is_open]_vars

\* An open request was made while the window was open: the selection made
\* after the window was built is still pending.
C17_Witness ==
    /\ gui.last = "draw_manual_moves_window"
    /\ gui.windows = 1
    /\ manual_moves_global.user_highlighted_block
    /\ manual_moves_global.manual_move_info.blockID # -1

\* C18: for every depth d >= 1 perform_optimization stores as ABITS the
\* least w >= 0 with 2^w >= d (7 for d = 100, 6 for d = 64, 0 for d = 1).
C18_MinimalAddrWidth ==
    call.fn = "perform_optimization" =>
        /\ IntPow(2, call.ABITS) >= call.size
        /\ \A w \in 0 .. (call.ABITS - 1) : IntPow(2, w) < call.size

\* A read/write memory with one read and one write port was mapped.
OneReadOneWrite ==
    /\ call.fn = "map_bram_to_mem_hardblocks"
    /\ call.mem.rd_ports = 1
    /\ call.mem.wr_ports = 1

\* The read and write addresses have the same width and are bit for bit on
\* the same nets.
SameAddrNets ==
    /\ Len(call.mem.read_addr) = Len(call.mem.write_addr)
    /\ call.mem.read_addr = call.mem.write_addr

\* The hard block asked for by C19: a single-port RAM on the one address
\* when the addresses are the same, else a dual-port RAM with the read
\* address on addr1 and the write address on addr2.
ShapeFollowsAddrs ==
    IF SameAddrNets
    THEN /\ call.result.out = "single_port_ram"
         /\ call.result.addr = call.mem.read_addr
    ELSE /\ call.result.out = "dual_port_ram"
         /\ SubSeq(call.result.addr1, 1, Len(call.mem.read_addr)) = call.mem.read_addr
         /\ SubSeq(call.result.addr2, 1, Len(call.mem.write_addr)) = call.mem.write_addr

C20_UnsupportedPortsAreFatal ==
    LET ports == <<call.mem.rd_ports, call.mem.wr_ports>>
        unsupported ==
            \/ /\ call.fn = "map_bram_to_mem_hardblocks"
               /\ ports \notin {<<1, 1>>, <<1, 2>>, <<2, 1>>, <<2, 2>>}
            \/ /\ call.fn = "map_rom_to_mem_hardblocks"
               /\ ports \notin {<<1, 0>>, <<2, 0>>}
    IN  (call.fn # "none" /\ unsupported) =>
            /\ call.result.routine = "error_message"
            /\ call.result.out[2] = call.mem.name

\* C21: every memory handed to map_bram_to_mem_hardblocks or
\* map_rom_to_mem_hardblocks is either lowered to a single-port or dual-port
\* hard-block RAM (by a create_* routine, which tears its node down) or ends
\* in a fatal error, whatever its area and whether or not the architecture
\* has a LUTRAM model.
C21_LoweredOrFatal ==
    call.fn \in {"map_bram_to_mem_hardblocks", "map_rom_to_mem_hardblocks"} =>
        \/ call.result.routine = "error_message"
        \/ call.result.out \in {"single_port_ram", "dual_port_ram", "oassert"}

\* C22: iterate_block_memories maps every memory that resolve_bram_node and
\* resolve_rom_node registered exactly once (every one of them when the
\* pass runs to its end, none twice in any case), each with the routine of
\* its list, all read/write memories before any read-only memory, and never
\* a memory whose source node has already been released.
C22_EachMemoryMappedOnce ==
    call.fn = "iterate_block_memories" =>
        LET log == call.walk.log
        IN  /\ \A i, j \in 1 .. Len(log) : log[i].node = log[j].node => i = j
            /\ ~call.walk.fatal =>
                  \A node \in 1 .. MaxNodes : \E i \in 1 .. Len(log) : log[i].node = node
            /\ \A i \in 1 .. Len(log) :
                  /\ ~log[i].released_before
                  /\ log[i].fn = (IF call.netlist[log[i].node].cell = "bram"
                                  THEN "map_bram_to_mem_hardblocks"
                                  ELSE "map_rom_to_mem_hardblocks")
            /\ \A i, j \in 1 .. Len(log) :
                  (log[i].fn = "map_rom_to_mem_hardblocks"
                   /\ log[j].fn = "map_bram_to_mem_hardblocks") => j < i

\* A pass that ran to its end over a netlist with memories on both lists,
\* the read-only one discovered first.
C22_Witness ==
    /\ call.fn = "iterate_block_memories"
    /\ ~call.walk.fatal
    /\ call.netlist[1].cell = "rom"
    /\ call.netlist[2].cell = "bram"
    /\ Len(call.walk.log) = MaxNodes
    /\ call.walk.released # {}


(***************************************************************************)
(* C23: once a trial has been evaluated, the first num_affected_nets       *)
(* entries of ts_nets_to_update hold no net twice, there are at most as    *)
(* many of them as there are nets, they are the nets a pin of which was    *)
(* touched, and a net is among them exactly when its proposed_net_cost is  *)
(* non-negative.                                                           *)
(***************************************************************************)
C23_AffectedNetsListedOnce ==
    pc = "evaluated" =>
        /\ num_affected_nets <= NumNets
        /\ \A i, j \in 0..(num_affected_nets - 1) :
              i # j => ts_nets_to_update[i] # ts_nets_to_update[j]
        /\ LET listed == {ts_nets_to_update[i] : i \in 0..(num_affected_nets - 1)}
           IN  /\ listed = {touch_log[k].net : k \in 1..Len(touch_log)}
               /\ \A n \in Nets : (n \in listed) <=> (proposed_net_cost[n] >= 0)

\* A trial that touched two pins of one net and affected two nets.
C23_Witness ==
    /\ pc = "evaluated"
    /\ num_affected_nets = 2
    /\ \E k1, k2 \in 1..Len(touch_log) :
          k1 # k2 /\ touch_log[k1].net = touch_log[k2].net


(***************************************************************************)
(* C24: once a trial has been evaluated, the cost of each affected net was *)
(* computed exactly once, in the order of ts_nets_to_update and after      *)
(* every pin touch of the trial; the proposed cost is the cost function of *)
(* the final trial box, and bb_delta_c is the sum over the affected nets   *)
(* of proposed cost minus committed cost.                                  *)
(***************************************************************************)
C24_CostOncePerNetAfterAllTouches ==
    pc = "evaluated" =>
        LET costed == before_trial.costed
            listed == {ts_nets_to_update[i] : i \in 0..(num_affected_nets - 1)}
        IN  /\ Len(costed) = num_affected_nets
            /\ \A i \in 1..Len(costed) :
                  /\ costed[i].net = ts_nets_to_update[i - 1]
                  /\ costed[i].touches = Len(touch_log)
            /\ \A n \in listed :
                  /\ Cardinality({i \in 1..Len(costed) : costed[i].net = n}) = 1
                  /\ proposed_net_cost[n] =
                        IF cube_bb THEN get_net_cost(n, ts_bb_coord_new[n])
                        ELSE get_net_layer_cost(n, layer_ts_bb_coord_new[n],
                                                ts_layer_sink_pin_count[n])
            /\ bb_delta_c = SumOver(listed, [n \in Nets |->
                                       proposed_net_cost[n] - net_cost[n]])

\* A swap of two blocks that touched three pins of one net and changed the
\* cost.
C24_Witness ==
    /\ pc = "evaluated"
    /\ Len(blocks_affected) = 2
    /\ bb_delta_c # 0
    /\ \E n \in Nets :
          Cardinality({k \in 1..Len(touch_log) : touch_log[k].net = n}) >= 3


(***************************************************************************)
(* C25: after a timing-driven trial, affected_pins holds no pin twice; it  *)
(* holds exactly the sinks of nets that are not ignored whose delay at the *)
(* new locations differs from the committed delay and whose own block or   *)
(* whose driver's block moved; each of them has its proposed delay and     *)
(* proposed timing cost, and timing_delta_c is the sum over them of        *)
(* proposed minus committed timing cost, each connection counted once.     *)
(***************************************************************************)
C25_EachConnectionCountedOnce ==
    (pc = "evaluated" /\ call.fn = "find_affected_nets_and_update_costs") =>
        LET moved == {blocks_affected[i].block_num : i \in 1..Len(blocks_affected)}
            new_delay(c) == comp_td_single_connection_delay(c[1], c[2], block_locs)
            changed == {c \in Connections :
                          /\ ~net_is_ignored(c[1])
                          /\ \/ net_driver_block(c[1]) \in moved
                             \/ pin_block(net_pin(c[1], c[2])) \in moved
                          /\ new_delay(c) # call.connection_delay[c]}
            pins == call.affected_pins
        IN  /\ \A i, j \in 1..Len(pins) : i # j => pins[i] # pins[j]
            /\ {pins[i] : i \in 1..Len(pins)} = {net_pin(c[1], c[2]) : c \in changed}
            /\ \A c \in Connections :
                  IF c \in changed
                  THEN /\ call.proposed_connection_delay[c] = new_delay(c)
                       /\ call.proposed_connection_timing_cost[c] =
                             criticality(c[1], c[2]) * new_delay(c)
                  ELSE /\ call.proposed_connection_delay[c] = no_proposed_connection[c]
                       /\ call.proposed_connection_timing_cost[c] = no_proposed_connection[c]
            /\ call.timing_delta_c =
                  SumOver(changed, [c \in Connections |->
                             criticality(c[1], c[2]) * new_delay(c)
                             - call.connection_timing_cost[c]])

\* A swap that moves the driver and the sink of one net and changes the
\* delay between them, while another moved sink keeps its delay.
C25_Witness ==
    /\ pc = "evaluated"
    /\ call.fn = "find_affected_nets_and_update_costs"
    /\ \E c \in Connections :
          /\ \E i, j \in 1..Len(blocks_affected) :
                /\ blocks_affected[i].block_num = net_driver_block(c[1])
                /\ blocks_affected[j].block_num = pin_block(net_pin(c[1], c[2]))
          /\ \E k \in 1..Len(call.affected_pins) :
                call.affected_pins[k] = net_pin(c[1], c[2])
    /\ \E c \in Connections :
          /\ ~net_is_ignored(c[1])
          /\ \E j \in 1..Len(blocks_affected) :
                blocks_affected[j].block_num = pin_block(net_pin(c[1], c[2]))
          /\ \A k \in 1..Len(call.affected_pins) :
                call.affected_pins[k] # net_pin(c[1], c[2])
    /\ call.timing_delta_c # 0


(***************************************************************************)
(* C26: a net that is ignored is never affected by a trial.  It is never   *)
(* listed in ts_nets_to_update and never logged as touched; its sentinel,  *)
(* its flag and its trial boxes, edge counts and sink counts stay as       *)
(* initialised; none of its sinks becomes an affected pin or gets a        *)
(* proposed delay; bb_delta_c and timing_delta_c are sums over the nets    *)
(* that are not ignored; and comp_bb_cost, comp_layer_bb_cost and          *)
(* recompute_bb_cost total the costs of the nets that are not ignored.     *)
(***************************************************************************)
C26_IgnoredNetsNeverAffected ==
    LET timed == call.fn = "find_affected_nets_and_update_costs"
        committed == SumOver(RealNets, net_cost)
    IN  /\ \A n \in Nets \ RealNets :
              /\ proposed_net_cost[n] < 0
              /\ bb_updated_before[n] = NOT_UPDATED_YET
              /\ ts_bb_coord_new[n] = DefaultBB
              /\ ts_bb_edge_new[n] = DefaultBB
              /\ layer_ts_bb_coord_new[n] = [l \in Layers |-> Default2DBB]
              /\ layer_ts_bb_edge_new[n] = [l \in Layers |-> Default2DBB]
              /\ ts_layer_sink_pin_count[n] = [l \in Layers |-> OPEN]
              /\ \A i \in DOMAIN ts_nets_to_update : ts_nets_to_update[i] # n
              /\ \A k \in 1..Len(touch_log) : touch_log[k].net # n
              /\ timed =>
                    /\ \A k \in 1..Len(call.affected_pins) :
                          pin_net(call.affected_pins[k]) # n
                    /\ \A c \in Connections :
                          c[1] = n => /\ call.proposed_connection_delay[c] < 0
                                      /\ call.proposed_connection_timing_cost[c] < 0
        /\ pc = "evaluated" =>
              bb_delta_c = SumOver(RealNets, [n \in Nets |->
                               IF proposed_net_cost[n] >= 0
                               THEN proposed_net_cost[n] - net_cost[n] ELSE 0])
        /\ (pc = "evaluated" /\ timed) =>
              call.timing_delta_c =
                  SumOver({c \in Connections : c[1] \in RealNets},
                          [c \in Connections |->
                              IF call.proposed_connection_delay[c] >= 0
                              THEN call.proposed_connection_timing_cost[c]
                                   - call.connection_timing_cost[c]
                              ELSE 0])
        /\ pc # "init" => recompute_bb_cost = committed
        /\ last_op = "comp" => costs_bb_cost = committed

\* A second trial that moves the block driving an ignored net and changes
\* both costs.
C26_Witness ==
    /\ pc = "evaluated"
    /\ call.fn = "find_affected_nets_and_update_costs"
    /\ num_try = 2
    /\ \E n \in Nets \ RealNets :
          \E i \in 1..Len(blocks_affected) :
              blocks_affected[i].block_num = net_driver_block(n)
    /\ bb_delta_c # 0
    /\ call.timing_delta_c # 0


\* The pins a layer's box of a net covers: the driver and the sinks on the layer.
C27_PinsOnLayer(n, l) ==
    {net_pins(n)[1]} \cup
    {net_sinks(n)[i] : i \in {k \in 1..Len(net_sinks(n)) :
                                  pin_layer(net_sinks(n)[k], block_locs) = l}}

(***************************************************************************)
(* C27: per-layer mode, after a trial that moved no driver of the net: if  *)
(* the trial state of a net of at least SMALL_NET sinks was produced       *)
(* incrementally (flag UPDATED_ONCE), then on every layer each trial edge  *)
(* count is the number of the net's pins, the driver and the sinks on that *)
(* layer, that lie at that extremal coordinate of the layer's trial box.   *)
(***************************************************************************)
C27_LayerEdgeCountsArePinCounts ==
    (~cube_bb /\ pc = "evaluated") =>
        \A n \in BigNets :
            (/\ bb_updated_before[n] = UPDATED_ONCE
             /\ \A i \in 1..Len(blocks_affected) :
                   blocks_affected[i].block_num # net_driver_block(n)) =>
                \A l \in Layers :
                    LET box == layer_ts_bb_coord_new[n][l]
                        edge == layer_ts_bb_edge_new[n][l]
                        at_x(v) == Cardinality({p \in C27_PinsOnLayer(n, l) :
                                       Clamp(pin_x(p, block_locs), W) = v})
                        at_y(v) == Cardinality({p \in C27_PinsOnLayer(n, l) :
                                       Clamp(pin_y(p, block_locs), H) = v})
                    IN  /\ edge.xmin = at_x(box.xmin)
                        /\ edge.xmax = at_x(box.xmax)
                        /\ edge.ymin = at_y(box.ymin)
                        /\ edge.ymax = at_y(box.ymax)


(***************************************************************************)
(* C28: between trials, for every net that is not ignored, the committed   *)
(* sink count of every layer of the device is non-negative and the counts  *)
(* of the device's layers add up to the number of sinks of the net.        *)
(***************************************************************************)
C28_CommittedSinkCountsAddUp ==
    pc = "idle" =>
        \A n \in RealNets :
            /\ \A l \in 0..(num_layers - 1) : place_move_ctx.num_sink_pin_layer[n][l] >= 0
            /\ SumOver(0..(num_layers - 1), place_move_ctx.num_sink_pin_layer[n])
                   = Len(net_sinks(n))


\* The lookups of the cost functions for the box bb stay inside the
\* triangular tables: the box is ordered, inside the clamp range, and
\* [ymax][ymin - 1] and [xmax][xmin - 1] are entries with 0 <= low <= high.
LookupsInsideTables(bb) ==
    /\ InRange(bb)
    /\ bb.xmin <= bb.xmax
    /\ bb.ymin <= bb.ymax
    /\ bb.ymax \in DOMAIN chanx_place_cost_fac
    /\ (bb.ymin - 1) \in DOMAIN chanx_place_cost_fac[bb.ymax]
    /\ bb.xmax \in DOMAIN chany_place_cost_fac
    /\ (bb.xmin - 1) \in DOMAIN chany_place_cost_fac[bb.xmax]
    /\ 0 <= bb.ymin - 1 /\ bb.ymin - 1 <= bb.ymax
    /\ 0 <= bb.xmin - 1 /\ bb.xmin - 1 <= bb.xmax

(***************************************************************************)
(* C29: every box the cost functions are given, the committed box of a net *)
(* that is not ignored and the trial box of an affected net, in cube mode  *)
(* and on every layer in per-layer mode, is ordered and inside the clamp   *)
(* range, so that the channel factor lookups stay inside the tables.       *)
(***************************************************************************)
C29_CostLookupsInsideTables ==
    /\ pc # "init" =>
          \A n \in RealNets :
              IF cube_bb THEN LookupsInsideTables(place_move_ctx.bb_coords[n])
              ELSE \A l \in Layers :
                      LookupsInsideTables(place_move_ctx.layer_bb_coords[n][l])
    /\ pc = "evaluated" =>
          \A i \in 0..(num_affected_nets - 1) :
              IF cube_bb THEN LookupsInsideTables(ts_bb_coord_new[ts_nets_to_update[i]])
              ELSE \A l \in Layers :
                      LookupsInsideTables(layer_ts_bb_coord_new[ts_nets_to_update[i]][l])

\* A trial in cube mode proposes a box that spans the clamp range for one
\* net and a box of a single column, the last one, for another.
C29_Witness ==
    /\ pc = "evaluated"
    /\ cube_bb
    /\ \E i, j \in 0..(num_affected_nets - 1) :
          /\ ts_bb_coord_new[ts_nets_to_update[i]].xmin = 1
          /\ ts_bb_coord_new[ts_nets_to_update[i]].xmax = W - 2
          /\ ts_bb_coord_new[ts_nets_to_update[j]].xmin = W - 2
          /\ ts_bb_coord_new[ts_nets_to_update[j]].xmax = W - 2


\* The wiring cost formula of one layer's box for the given fanout.
LayerWiringCost(b, fanout) ==
    (b.xmax - b.xmin + 1) * wirelength_crossing_count(fanout)
        * chanx_place_cost_fac[b.ymax][b.ymin - 1]
    + (b.ymax - b.ymin + 1) * wirelength_crossing_count(fanout)
        * chany_place_cost_fac[b.xmax][b.xmin - 1]

(***************************************************************************)
(* C30: in per-layer mode an evaluation at atom level completes, the       *)
(* proposed cost of every affected net is the sum, over the layers whose   *)
(* trial sink count is not zero, of the wiring cost of the layer's trial   *)
(* box with the fanout sink count + 1, and bb_delta_c is the bb_delta_c    *)
(* the cluster-level evaluation gives for the same relocation.             *)
(***************************************************************************)
C30_PerLayerCostInBothVariants ==
    (~cube_bb /\ call.fn = "find_affected_nets_and_update_costs_atom"
              /\ pc \in {"evaluated", "crashed"}) =>
        /\ pc = "evaluated"
        /\ \A i \in 0..(num_affected_nets - 1) :
              LET n == ts_nets_to_update[i]
                  used == {l \in Layers : ts_layer_sink_pin_count[n][l] # 0}
              IN  proposed_net_cost[n] =
                      SumOver(used, [l \in Layers |->
                          LayerWiringCost(layer_ts_bb_coord_new[n][l],
                                          ts_layer_sink_pin_count[n][l] + 1)])
        /\ bb_delta_c = call.cluster_bb_delta_c


(***************************************************************************)
(* C31: a submission with an identifier that names no block, with a        *)
(* destination that fails the legality check, with the destination the     *)
(* block is at, or with an empty field is rejected: the proceed button is  *)
(* not pressed, at least one diagnostic is shown and the window stays      *)
(* open.                                                                   *)
(***************************************************************************)
C31_EveryRejectionShowsADiagnostic ==
    gui.last = "calculate_cost_callback" =>
        ((call.unresolved \/ call.illegal \/ call.at_current \/ call.incomplete) =>
            /\ ~gui.proceed
            /\ Len(gui.dialogs) > 0
            /\ gui.windows > 0)

(* C32: calculate_cost_callback never indexes the placement state with a block id it could not resolve: the read of block_locs (and the legality check before it) is made only with the id of a block of the netlist, so the read is always in range. *)
C32_NoLookupWithUnresolvedId ==
    gui.last = "calculate_cost_callback" =>
        call.read = "in_range"

(* C33: whenever the request is marked valid, the recorded block id is the id of a block of the netlist, the recorded destination passes the legality check for that block, and x_pos, y_pos, subtile and to_location describe the same destination; the submission that was accepted named a block that resolved, a destination that passed the legality check and was not the block's location at that time, and left no field empty. *)
C33_ValidInputIsValidated ==
    LET info == manual_moves_global.manual_move_info
    IN  /\ info.valid_input =>
              /\ valid_block_id(info.blockID)
              /\ is_legal_swap_to_location(info.blockID, info.to_location)
              /\ info.to_location = t_pl_loc(info.x_pos, info.y_pos, info.subtile)
        /\ (gui.last = "calculate_cost_callback" /\ gui.proceed) =>
              /\ info.valid_input
              /\ ~call.unresolved
              /\ ~call.illegal
              /\ ~call.at_current
              /\ ~call.incomplete

\* A submission was accepted: the request is valid and names a block and a
\* destination in another column than the block's.
C33_Witness ==
    LET info == manual_moves_global.manual_move_info
    IN  /\ gui.last = "calculate_cost_callback"
        /\ gui.proceed
        /\ info.valid_input
        /\ valid_block_id(info.blockID)
        /\ info.x_pos # block_locs[clb_block[info.blockID]].x

\* The write half a write-data or write-enable pin comes from, and the
\* address pins of a write half of the memory being lowered.
WriteHalfOf(pin) == ((pin.bit - 1) \div call.mem.DBITS) + 1
WriteAddrHalf(h) == half(call.mem.write_addr, call.mem.ABITS, h)
Matched(a, b) == check_match_ports(a, b) \/ check_match_ports(b, a)

(* C34: in the 2-read/2-write lowering each port of the dual-port RAM takes its write data and its write enable from the same write half, the two ports take different write halves, and the write half of a port is one whose address matched the read address of that port. *)
C34_WriteHalvesPairedWithPorts ==
    (call.result.routine = "create_2r2w_dual_port_ram" /\ call.result.out = "dual_port_ram") =>
        LET r == call.result
        IN  /\ WriteHalfOf(r.data1[1]) = WriteHalfOf(r.we1)
            /\ WriteHalfOf(r.data2[1]) = WriteHalfOf(r.we2)
            /\ WriteHalfOf(r.data1[1]) # WriteHalfOf(r.data2[1])
            /\ Matched(WriteAddrHalf(WriteHalfOf(r.data1[1])), r.addr1)
            /\ Matched(WriteAddrHalf(WriteHalfOf(r.data2[1])), r.addr2)

\* No candidate matched the port in either direction of check_match_ports.
NoMatch(port, cand1, cand2) ==
    /\ ~check_match_ports(cand1, port) /\ ~check_match_ports(cand2, port)
    /\ ~check_match_ports(port, cand1) /\ ~check_match_ports(port, cand2)
FatalDiagnostic == call.result = error_message(TwoDistinctPorts, call.mem.name)
ReadAddrHalf(h) == half(call.mem.read_addr, call.mem.ABITS, h)

(* C35: in the 1R2W, 2R1W and 2R2W lowerings, when an address port that must be paired matches none of its candidates the fatal diagnostic naming the memory is raised and no dual-port RAM is built; otherwise in 1R2W the matched write half gives data1 and we1 and the other write half gives addr2, data2 and we2, and in 2R1W the matched read half gives out1 and the other read half gives addr2 and out2. *)
C35_UnmatchedPortIsFatal ==
    LET r == call.result
        mem == call.mem
    IN  /\ call.fn = "map_bram_to_mem_hardblocks" /\ mem.rd_ports = 1 /\ mem.wr_ports = 2 =>
              IF NoMatch(mem.read_addr, WriteAddrHalf(1), WriteAddrHalf(2))
              THEN FatalDiagnostic
              ELSE /\ r.out = "dual_port_ram"
                   /\ \E h \in 1 .. 2 :
                         /\ Matched(WriteAddrHalf(h), mem.read_addr)
                         /\ r.addr1 = mem.read_addr
                         /\ r.data1 = half(mem.write_data, mem.DBITS, h)
                         /\ r.we1 = half(mem.write_en, mem.DBITS, h)[1]
                         /\ r.addr2 = WriteAddrHalf(3 - h)
                         /\ r.data2 = half(mem.write_data, mem.DBITS, 3 - h)
                         /\ r.we2 = half(mem.write_en, mem.DBITS, 3 - h)[1]
        /\ call.fn = "map_bram_to_mem_hardblocks" /\ mem.rd_ports = 2 /\ mem.wr_ports = 1 =>
              IF NoMatch(mem.write_addr, ReadAddrHalf(1), ReadAddrHalf(2))
              THEN FatalDiagnostic
              ELSE /\ r.out = "dual_port_ram"
                   /\ \E h \in 1 .. 2 :
                         /\ Matched(ReadAddrHalf(h), mem.write_addr)
                         /\ r.addr1 = mem.write_addr
                         /\ r.data1 = half(mem.write_data, mem.DBITS, 1)
                         /\ r.we1 = mem.write_en[1]
                         /\ r.out1 = half(mem.read_data, mem.DBITS, h)
                         /\ r.addr2 = ReadAddrHalf(3 - h)
                         /\ r.out2 = half(mem.read_data, mem.DBITS, 3 - h)
        /\ call.fn = "map_bram_to_mem_hardblocks" /\ mem.rd_ports = 2 /\ mem.wr_ports = 2 =>
              ((\E h \in 1 .. 2 : NoMatch(ReadAddrHalf(h), WriteAddrHalf(1), WriteAddrHalf(2)))
                  => FatalDiagnostic)

(* C37: every hard-block RAM built by one of the seven lowerings has the merged clock of the memory record (memory->clk) as its clock input, never a read or write clock pin of the original node. *)
C37_RamClockIsMergedClock ==
    (/\ call.result.routine \notin {"none", "error_message"}
     /\ call.result.out \in {"single_port_ram", "dual_port_ram"}) =>
        call.result.clk = call.mem.clk[1]

\* The gate is the OR reduction of the clocks.
IsOrOf(g, clocks) == "type" \in DOMAIN g /\ g.type = "LOGICAL_OR" /\ g.inputs = clocks
\* The clock node is a NOT stage with the OR reduction of the clocks below it.
NotStageOverOr(clk_node, clocks) ==
    /\ clk_node.type = "LOGICAL_NOT"
    /\ LET below == clk_node.inputs[1]
       IN  \/ IsOrOf(below, clocks)
           \/ \E i \in 1 .. Len(below.inputs) : IsOrOf(below.inputs[i], clocks)

(* C36: initialising a memory record, read/write or read-only, builds exactly one merged clock, a NOT stage over the OR reduction of the memory's clocks, and appends exactly that clock node to the clock list of the netlist, which grows by one per memory. *)
C36_MergedClockIsRegistered ==
    call.fn \in {"resolve_bram_node", "resolve_rom_node"} =>
        /\ Len(call.memory.clk) = 1
        /\ NotStageOverOr(call.memory.clk[1], call.memory.read_clk \o call.memory.write_clk)
        /\ call.netlist.clocks = Append(call.clocks_before, call.memory.clk[1])

(* C39: after free_block_memories both registries, the read/write one and the read-only one, are empty and both lowering lists are empty: lookup_block_memory returns NULL for every name and no registry entry refers to a record that was freed. *)
C39_RegistriesEmptyAfterFree ==
    call.fn \in {"free_block_memories", "lookup_block_memory"} =>
        /\ call.registries.block_memories = {}
        /\ call.registries.read_only_memories = {}
        /\ call.lists.block_memory_list = <<>>
        /\ call.lists.read_only_memory_list = <<>>
        /\ call.fn = "lookup_block_memory" => call.ret = NULL
        /\ \A m \in call.registries.block_memories \cup call.registries.read_only_memories :
              m.name \notin call.freed

(* C38: after perform_optimization the ABITS of the node is needed_addr_width and each address list of the memory holds exactly ABITS pins for each of its ports, whether the original address width was wider than, equal to or narrower than needed_addr_width; so pins[i + ABITS] for i < ABITS lies inside the list of a memory with two ports. *)
C38_AddrListsHoldAbitsPerPort ==
    call.fn = "perform_optimization" =>
        /\ call.mem.ABITS = needed_addr_width_loop(call.mem.size, 0, 0)
        /\ Len(call.mem.read_addr) = call.mem.rd_ports * call.mem.ABITS
        /\ Len(call.mem.write_addr) = call.mem.wr_ports * call.mem.ABITS
        /\ call.mem.wr_ports = 2 =>
              \A i \in 0 .. (call.mem.ABITS - 1) : i + call.mem.ABITS < Len(call.mem.write_addr)

====
